---- MODULE Spec2Model ----
(***************************************************************************)
(* Model of the polling order monitor of posprinter_supabase               *)
(* (src/src/gui/order_monitor.py, OrderMonitorThread / SmartOrderMonitor)  *)
(* together with the status write-back of the order widget                 *)
(* (src/src/gui/order_widget.py) and the two stores it works on: the local *)
(* SQLite mirror and the remote Supabase table "order".                    *)
(*                                                                         *)
(* The monitor thread is a pc-machine: idle -> loop -> check -> sync ->    *)
(* query -> batch <-> printing -> sleep -> loop ... -> done.  The UI       *)
(* thread and the environment (new remote orders, passing time) interleave *)
(* with it at every step.                                                  *)
(***************************************************************************)
EXTENDS Integers, Sequences, FiniteSets, TLC

(* ------------------------------ bounds -------------------------------- *)
\* number of order ids the remote store hands out (ids are 1..MaxOrders,
\* handed out in creation order, so a larger id is a newer order)
MaxOrders == 2
\* largest value of consecutive_empty_checks the scheduler specification follows
MaxEmpty == 12
\* largest value of consecutive_empty_checks the store specifications follow
MaxQuiet == 1
\* number of rows of the remote table "order" in the query specification
MaxRows == 23
\* number of orders cancelled at another terminal in the cancellation specification
MaxCancelled == 1
\* items of an order and options of an item in the cancellation specification
MaxItems == 1
MaxOptions == 2
\* threads that call the query cache, largest clock value, largest cached value
MaxThreads == 2
MaxClock == 2
MaxValue == 2
MaxReceiptItems == 2
MaxLines == 2
\* WebSocketApp objects one realtime client makes
MaxConnections == 3

Orders == 1..MaxOrders

\* arguments the model passes to set_check_interval: negative, zero and the
\* values HybridMonitor sets (monitoring_factory.py:76,91)
IntervalArgs == {-2, 0, 60, 120}

(* -------------------------- program constants ------------------------- *)
DefaultCheckInterval == 10
FastCheckInterval == 3
SlowCheckInterval == 30
MinCheckInterval == 3
QuietPenalty == 5
QuietThreshold == 5
VeryQuietThreshold == 10
BatchLimit == 20
AutoPrintOnInterval == 3
AutoPrintOffInterval == 15

VARIABLES
    running,                  \* OrderMonitorThread._running
    pc,                       \* position of the monitor thread
    check_interval,           \* OrderMonitorThread.check_interval
    auto_print_enabled,       \* PrinterManager's auto-print flag
    consecutive_empty_checks, \* OrderMonitorThread.consecutive_empty_checks
    last_order_time,          \* 0 = None, else a stamp that differs from the previous one
    base_interval,            \* local of _calculate_dynamic_interval (0 = not yet computed)
    current_interval,         \* local of run() (0 = not yet computed)
    connection_ok,            \* local of _check_and_process_orders
    new_orders,               \* local of _check_and_process_orders: the batch
    idx,                      \* position of the for loop of _process_auto_print_orders (0 = no batch)
    events,                   \* tick-level signals and work of the current tick
    attempted,                \* orders whose loop iteration was entered in the current tick
    last,                     \* outcome of the most recent order iteration of the current tick
    remote_order,             \* remote table "order": order_id -> is_printed
    local_order,              \* local mirror of "order": order_id -> is_printed
    local_company,            \* local mirror of "company" holds the company row
    aged,                     \* orders whose created_at is more than one hour ago
    delivered,                \* orders printed by the monitor and written printed=true locally, not reset since
    empty_cap,                \* number of consecutive empty ticks the specification follows
    interval_arg,             \* {} before the first set_check_interval, then {its last argument}
    ui_pc,                    \* UI thread: "ready", or "waiting" inside stop_monitoring's wait()
    ui_last,                  \* the most recent manual status update of the UI thread
    last_print_attempt,       \* local column last_print_attempt: order_id -> stamp (0 = NULL)
    w_pc,                     \* OrderWidget.check_for_updates: "idle" or "batch"
    w_orders,                 \* local of check_for_updates: unprinteed_orders
    w_idx,                    \* position of the for loop of check_for_updates
    w_last,                   \* outcome of the most recent step of check_for_updates
    rt_worker,                \* realtime print workers: order_id -> "none" | "start" | "printing" | "finished"
    remote_item,              \* remote table "order_item": rows <<order_id, item>>
    remote_option,            \* remote table "order_item_option": rows <<order_id, item, option>>
    local_item,               \* local mirror of "order_item"
    local_option,             \* local mirror of "order_item_option"
    c_pc,                     \* cancel_order: position inside the deletion of one order
    c_order,                  \* cancel_order: order_id of the current loop pass (0 = none)
    c_ids,                    \* _delete_order_cascade: order_items_data (<<>> = None, else <<ids>>)
    c_last,                   \* outcome of the most recent pass of cancel_order's loop
    qc_cache,                 \* QueryCache.cache: key -> value
    qc_times,                 \* QueryCache.cache_times: key -> time of the write
    qc_now,                   \* datetime.now(), in seconds
    qc_lock,                  \* QueryCache.lock: the thread inside a with block (0 = free)
    qc_th,                    \* per thread: position inside get/set/clear and its locals
    qc_model,                 \* key -> value last stored by a finished set and not removed since
    qc_last,                  \* the most recent call that returned
    r_order,                  \* format_receipt_string: the order dictionary it is given
    r_lines,                  \* format_receipt_string: the lines it returns (<<>> = not yet called)
    p_pc,                     \* print call on a hardware sink: position inside the function
    p_kind,                   \* "com" (print_receipt_com) | "usb" (print_receipt_esc_usb) | "none"
    p_text,                   \* receipt_text of the call: lines of characters
    p_line,                   \* position of the for loop over the lines (USB)
    p_handle,                 \* the sink handle: "none" | "open" | "closed"
    p_data,                   \* all_sent_data (USB) / full_data (serial): the bytes the call collects
    p_cause,                  \* why the call is about to return False ("none" = it is not)
    p_sent,                   \* bytes written to the sink during the call
    p_log,                    \* raw files written by save_printer_raw_data during the call
    p_last,                   \* the most recent print call that returned
    r_path,                   \* the print path that built the dictionary last rendered ("none" = none yet)
    pb,                       \* print_both_receipts and its caller: position, the sinks' calls, results
    client                    \* SupabaseRealtimeClient: its flags, websockets and heartbeat threads

sched == <<running, pc, check_interval, auto_print_enabled,
           consecutive_empty_checks, last_order_time, base_interval, current_interval>>
tick == <<connection_ok, new_orders, idx, events, attempted, last>>
store == <<remote_order, local_order, local_company, aged, last_print_attempt>>
hist == <<delivered, empty_cap, interval_arg>>
widget == <<w_pc, w_orders, w_idx, w_last>>
ext == <<ui_pc, ui_last, w_pc, w_orders, w_idx, w_last, rt_worker>>
children == <<remote_item, remote_option, local_item, local_option>>
cancel == <<c_pc, c_order, c_ids, c_last>>
qcache == <<qc_cache, qc_times, qc_now, qc_lock, qc_th, qc_model, qc_last>>
monitor == <<sched, tick, store, hist, ext>>
sink == <<p_pc, p_kind, p_text, p_line, p_handle, p_data, p_cause, p_sent, p_log, p_last>>
extra == <<r_path, pb, client>>
nonclient == <<monitor, children, cancel, qcache, r_order, r_lines, sink, r_path, pb>>
nonsink == <<monitor, children, cancel, qcache, r_order, r_lines, extra>>
aux3 == <<r_order, r_lines, sink, extra>>
aux2 == <<qcache, aux3>>
aux == <<children, cancel, aux2>>
vars == <<running, pc, check_interval, auto_print_enabled,
          consecutive_empty_checks, last_order_time, base_interval, current_interval,
          connection_ok, new_orders, idx, events, attempted, last,
          remote_order, local_order, local_company, aged,
          delivered, empty_cap, interval_arg,
          ui_pc, ui_last, last_print_attempt, w_pc, w_orders, w_idx, w_last, rt_worker,
          remote_item, remote_option, local_item, local_option,
          c_pc, c_order, c_ids, c_last,
          qc_cache, qc_times, qc_now, qc_lock, qc_th, qc_model, qc_last,
          r_order, r_lines,
          p_pc, p_kind, p_text, p_line, p_handle, p_data, p_cause, p_sent, p_log, p_last,
          r_path, pb, client>>

(* ------------------------------ helpers ------------------------------- *)
Max(a, b) == IF a >= b THEN a ELSE b
Min(a, b) == IF a <= b THEN a ELSE b

SetMax(S) == CHOOSE x \in S : \A y \in S : y <= x

\* ORDER BY created_at DESC: ids are handed out in creation order
RECURSIVE NewestFirst(_)
NewestFirst(S) == IF S = {} THEN <<>> ELSE <<SetMax(S)>> \o NewestFirst(S \ {SetMax(S)})

Take_noLimit(s, n) == s

\* LIMIT n
Take(s, n) == SubSeq(s, 1, Min(n, Len(s)))

PatchOutcomes == {"ok", "exception", "rejected"}

\* signal: the per-order signal emitted for the iteration
\* (auto_print_completed / auto_print_failed / none)
NoLast == [order |-> 0, outcome |-> "none", signal |-> "none",
           customer |-> FALSE, kitchen |-> FALSE,
           local_ok |-> FALSE, patch |-> "none", logged |-> FALSE]

\* ui_last: op is the method called, after the order's local row
\* <<is_printed, last_print_attempt>> when the call returned
NoUiLast == [op |-> "none", order |-> 0, value |-> FALSE, local_ok |-> FALSE,
             after |-> <<FALSE, 0>>]

\* w_last: outcome of the most recent iteration of check_for_updates, error
\* whether its except branch put the error notice on screen
NoWLast == [order |-> 0, outcome |-> "none", error |-> FALSE]

\* datetime.now(): a stamp different from the one stored before
FreshStamp(old) == IF old = 1 THEN 2 ELSE 1

\* failed: the deletions of the pass that deleted nothing
NoCLast == [order |-> 0, supabase_success |-> FALSE, cache_success |-> FALSE,
            reported |-> "none", failed |-> {}]

(* ----------------------------- query cache ---------------------------- *)
Threads == 1..MaxThreads
\* QueryCache.__init__: default_ttl
DefaultTtl == 300
\* cache keys and clear patterns are strings, here sequences over {1, 2}
CacheKeys == {<<1>>, <<1, 2>>}
\* pattern = None, ttl = None, the return value None, a raised KeyError
NoPattern == <<0>>
NoTtl == -1
NoValue == 0
KeyErrorRaised == -1
Values == 1..MaxValue

IdleThread == [pc |-> "idle", key |-> <<>>, ttl |-> NoTtl, value |-> NoValue,
               pattern |-> NoPattern, todo |-> <<>>, before |-> <<>>]
NoQLast == [thread |-> 0, op |-> "none", key |-> <<>>, ttl |-> NoTtl,
            pattern |-> NoPattern, ret |-> NoValue]

(* ------------------------------ receipts ------------------------------ *)
\* order.get("total_price"): <<>> is None (key absent or null), <<n>> the value
NoPrice == <<>>
NoOrder == [total_price |-> NoPrice, items |-> <<>>, given |-> FALSE]

\* the order dictionaries handed to the template, with amounts on both sides
\* of the thousands separator and of zero; the items carry no options
OrderInputs ==
    LET Items == [quantity : 0..2, price : {0, 999, 1000, 1234567}]
    IN [total_price : {NoPrice} \cup {<<n>> : n \in {-1000, 0, 1, 999, 1000, 1234567}},
        items : UNION {[1..n -> Items] : n \in 0..MaxReceiptItems},
        given : {TRUE}]

Digit(d) == <<"0", "1", "2", "3", "4", "5", "6", "7", "8", "9">>[d + 1]

RECURSIVE Decimal(_)
Decimal(n) == IF n < 10 THEN <<Digit(n)>> ELSE Decimal(n \div 10) \o <<Digit(n % 10)>>

RECURSIVE Grouped(_)
Grouped(n) ==
    IF n < 1000 THEN Decimal(n)
    ELSE Grouped(n \div 1000)
           \o <<",", Digit((n % 1000) \div 100), Digit((n \div 10) % 10), Digit(n % 10)>>

\* f"{n:,}": decimal digits in groups of three separated by commas
FormatThousands(n) == IF n < 0 THEN <<"-">> \o Grouped(-n) ELSE Grouped(n)

\* total += qty * price_per_item over the items, in order
RECURSIVE ItemsTotal(_)
ItemsTotal(items) ==
    IF items = <<>> THEN 0
    ELSE ItemsTotal(SubSeq(items, 1, Len(items) - 1))
           + items[Len(items)].quantity * items[Len(items)].price

UsesDbTotal_whenPresent(db_total_price) == db_total_price # NoPrice

\* if db_total_price is not None and db_total_price > 0
UsesDbTotal(db_total_price) == db_total_price # NoPrice /\ db_total_price[1] > 0

\* the lines appended for each item: name, unit price, quantity, subtotal
\* and the blank line between items
RECURSIVE ItemLines(_)
ItemLines(items) ==
    IF items = <<>> THEN <<>>
    ELSE LET item == Head(items) IN
         << <<"item: ", "name">>,
            <<"unit price: ">> \o FormatThousands(item.price) \o <<"won">>,
            <<"quantity: ">> \o Decimal(item.quantity) \o <<"ea">>,
            <<"subtotal: ">> \o FormatThousands(item.quantity * item.price) \o <<"won">>,
            <<>> >>
         \o ItemLines(Tail(items))

\* the list `lines` of format_receipt_string; a line is a sequence of a
\* label and characters, the Korean labels and the currency suffix written
\* in English
ReceiptLines(order) ==
    << <<"*** customer receipt ***">>, <<"company_name">>, <<>>,
       <<"order no: ", "order_id">>, <<"ordered at: ", "created_at">>,
       <<"order type:  ", "dine in">>, <<>>, <<"--------------------">> >>
    \o ItemLines(order.items)
    \o << <<"--------------------">>,
          <<"total: ">>
            \o FormatThousands(IF UsesDbTotal(order.total_price)
                               THEN order.total_price[1]
                               ELSE ItemsTotal(order.items))
            \o <<"won">>,
          <<>>, <<"thank you!">>, <<>> >>

(* --------------------------- hardware sinks --------------------------- *)
NoPLast == [kind |-> "none", result |-> "none", text |-> <<>>, sent |-> <<>>,
            log |-> <<>>, handle |-> "none", cause |-> "none"]

\* receipt texts as lists of lines; characters of a line: "a" an ASCII
\* letter, " " a space, "n" the Hangul of the order-number label (in the
\* Korean code page), "x" a character outside the Korean code page
Texts ==
    LET Lines == {<<>>, <<" ">>, <<"a">>, <<"n", "a">>, <<"x">>}
    IN UNION {[1..n -> Lines] : n \in 1..MaxLines}

\* line.encode('cp949', errors='strict') succeeds
Cp949Encodable(line) == \A i \in 1..Len(line) : line[i] # "x"

\* str.encode: the bytes of the characters in the code page or in UTF-8
RECURSIVE Encode(_, _)
Encode(cs, codec) ==
    IF cs = <<>> THEN <<>>
    ELSE (CASE Head(cs) = "a" -> <<97>>
            [] Head(cs) = " " -> <<32>>
            [] Head(cs) = "\n" -> <<10>>
            [] Head(cs) = "n" -> IF codec = "cp949" THEN <<193, 214>> ELSE <<236, 163, 188>>
            [] Head(cs) = "x" -> <<240, 159, 152, 128>>)
         \o Encode(Tail(cs), codec)

\* "\n".join(lines): the receipt text as one list of characters
RECURSIVE Join(_)
Join(text) ==
    IF Len(text) = 1 THEN text[1]
    ELSE Join(SubSeq(text, 1, Len(text) - 1)) \o <<"\n">> \o text[Len(text)]

\* print_receipt_com: try receipt_text.encode('cp949') except
\* UnicodeEncodeError: receipt_text.encode('utf-8')
ComEncode(text) ==
    IF Cp949Encodable(Join(text)) THEN Encode(Join(text), "cp949")
    ELSE Encode(Join(text), "utf-8")

\* print_receipt_com: esc_commands + receipt_bytes + reset_commands + cut
ComFullData(text) ==
    <<27, 64, 27, 97, 0, 27, 69, 1, 29, 33, 17>> \o ComEncode(text)
      \o <<27, 69, 0, 29, 33, 0>> \o <<29, 86, 0>>

STYLE_COMMANDS ==
    [init |-> <<27, 64>>, center |-> <<27, 97, 1>>, left |-> <<27, 97, 0>>,
     text_2x |-> <<29, 33, 17>>, text_normal |-> <<29, 33, 0>>,
     cut |-> <<29, 86, 65, 0>>, crlf |-> <<13, 10>>]

\* not line.strip()
IsBlank(line) == \A i \in 1..Len(line) : line[i] = " "

UsbLineData_staysDouble(line) ==
    IF IsBlank(line) THEN STYLE_COMMANDS.crlf
    ELSE IF \E i \in 1..Len(line) : line[i] = "n"
         THEN STYLE_COMMANDS.center \o STYLE_COMMANDS.text_2x \o Encode(line, "cp949")
              \o STYLE_COMMANDS.crlf
         ELSE Encode(line, "cp949") \o STYLE_COMMANDS.crlf

\* the sequence of _raw calls of one pass of the loop over the lines; the
\* line with the order-number label is centred and doubled
UsbLineData(line) ==
    IF IsBlank(line) THEN STYLE_COMMANDS.crlf
    ELSE IF \E i \in 1..Len(line) : line[i] = "n"
         THEN STYLE_COMMANDS.center \o STYLE_COMMANDS.text_2x \o Encode(line, "cp949")
              \o STYLE_COMMANDS.crlf \o STYLE_COMMANDS.text_normal \o STYLE_COMMANDS.left
         ELSE Encode(line, "cp949") \o STYLE_COMMANDS.crlf

RunsFinally_notOnReturn(cause) == cause \notin {"encode", "other"}

\* finally: runs on every way out of the try block of print_receipt_esc_usb
RunsFinally(cause) == TRUE

(* --------------------------- print dispatcher ------------------------- *)
\* no call of print_both_receipts in progress and none returned yet; calls:
\* sink -> kind, result and cause of its print call; results: the dictionary
\* returned
NoCall == [pc |-> "idle", calls |-> <<>>, results |-> <<>>, success |-> FALSE]

(* ---------------------------- realtime client ------------------------- *)
\* SupabaseRealtimeClient.__init__ and RealtimeOrderMonitor.__init__; ws: 0
\* is None, else the number of the WebSocketApp; conns: the state of every
\* WebSocketApp made so far; senders: the heartbeat thread of each of them
NewClient == [ws |-> 0, is_connected |-> FALSE, should_reconnect |-> TRUE,
              is_monitoring |-> FALSE, conns |-> <<>>, senders |-> <<>>]

(* ------------------------- query cache helpers ------------------------ *)
Contains_prefix(pattern, k) ==
    Len(pattern) <= Len(k) /\ SubSeq(k, 1, Len(pattern)) = pattern

\* pattern in k: pattern occurs in k as a substring
Contains(pattern, k) ==
    \E i \in 0..(Len(k) - Len(pattern)) : SubSeq(k, i + 1, i + Len(pattern)) = pattern

\* ttl = ttl or self.default_ttl
EffectiveTtl(ttl) == IF ttl = NoTtl \/ ttl = 0 THEN DefaultTtl ELSE ttl

\* del d[k]
Without(d, k) == [x \in DOMAIN d \ {k} |-> d[x]]
\* d[k] = v
With(d, k, v) == [x \in DOMAIN d \cup {k} |-> IF x = k THEN v ELSE d[x]]

\* a list of the keys in S (the order of dict.keys())
RECURSIVE KeyList(_)
KeyList(S) == IF S = {} THEN <<>>
              ELSE LET k == CHOOSE x \in S : \A y \in S : Len(x) <= Len(y)
                   IN <<k>> \o KeyList(S \ {k})

(* ------------------------- interval computation ----------------------- *)
ClampInterval_noFloor(interval) == interval

\* set_check_interval: max(3, interval)
ClampInterval(interval) == Max(MinCheckInterval, interval)

\* _calculate_dynamic_interval: choice of base_interval
BaseInterval(auto, ci) == IF auto THEN FastCheckInterval ELSE ci

\* _calculate_dynamic_interval: widening for quiet periods
DynamicInterval(base, n) ==
    IF n > VeryQuietThreshold THEN Min(SlowCheckInterval, base * 2)
    ELSE IF n > QuietThreshold THEN base + QuietPenalty
    ELSE base

(* ------------------------------ stores -------------------------------- *)
\* of the essential tables the model follows "order" and "company"; the
\* others (order_item, order_item_option, menu_item, option_item) only feed
\* join_order_detail
FetchAndStoreTable_rowByRow(remote_rows) ==
    IF DOMAIN remote_rows = {} THEN remote_rows
    ELSE [o \in DOMAIN remote_rows \ {SetMax(DOMAIN remote_rows)} |-> remote_rows[o]]

\* SupabaseCache.fetch_and_store_table: the fetched rows overwrite the local mirror
FetchAndStoreTable(remote_rows) == remote_rows

\* the local-only column last_print_attempt of the rows a sync wrote
FetchedStamps(remote_rows) == [o \in DOMAIN remote_rows |-> 0]

\* SupabaseCache.join_order_detail: absent when the order is not in the local mirror
JoinOrderDetail(o) == o \in DOMAIN local_order

LocalWrite_negated(tbl, o, v, ok) ==
    IF ok /\ o \in DOMAIN tbl THEN [tbl EXCEPT ![o] = ~tbl[o]] ELSE tbl

\* UPDATE "order" SET is_printed = ? WHERE order_id = ?
LocalWrite(tbl, o, v, ok) ==
    IF ok /\ o \in DOMAIN tbl THEN [tbl EXCEPT ![o] = v] ELSE tbl

\* PATCH /rest/v1/order?order_id=eq.<o> {"is_printed": v}
RemotePatch(tbl, o, v, outcome) ==
    IF outcome = "ok" /\ o \in DOMAIN tbl THEN [tbl EXCEPT ![o] = v] ELSE tbl

\* _get_new_orders: WHERE is_printed = 0 AND created_at > now - 1 hour,
\* JOIN company, ORDER BY created_at DESC, LIMIT 20
GetNewOrders ==
    Take(NewestFirst({o \in DOMAIN local_order :
                        /\ local_company
                        /\ ~local_order[o]
                        /\ o \notin aged}), BatchLimit)

(* ---------------------- decisions of the monitor ---------------------- *)
ProbeNextPc_goOn(ok) == "sync"

\* _check_and_process_orders: return when the probe failed
ProbeNextPc(ok) == IF ok THEN "sync" ELSE "sleep"

OverallSuccess_both(customer, kitchen) == customer /\ kitchen

\* _execute_auto_print: overall_success = customer_success or kitchen_success
OverallSuccess(customer, kitchen) == customer \/ kitchen

LoopCondition_forever(flag) == TRUE

\* run(): while self._running
LoopCondition(flag) == flag

\* _process_auto_print_orders: if not self._running: break
BreakOnStop(flag) == ~flag

AfterOrderPc_abort(outcome) == IF outcome \in {"exception", "print_failed"} THEN "sleep" ELSE "batch"

\* _process_auto_print_orders: every outcome of an iteration goes on with the loop
AfterOrderPc(outcome) == "batch"

\* _update_print_status: requests.patch without raise_for_status; only an
\* exception reaches the except branch that logs
MonitorPatchLogged(outcome) == outcome = "exception"

(* ------------------------------- Init --------------------------------- *)
InitProgram(cap) ==
    /\ running = FALSE
    /\ pc = "idle"
    /\ check_interval = DefaultCheckInterval
    /\ auto_print_enabled \in BOOLEAN
    /\ consecutive_empty_checks = 0
    /\ last_order_time = 0
    /\ base_interval = 0
    /\ current_interval = 0
    /\ connection_ok = FALSE
    /\ new_orders = <<>>
    /\ idx = 0
    /\ events = {}
    /\ attempted = <<>>
    /\ last = NoLast
    /\ local_order = <<>>
    /\ local_company = FALSE
    /\ delivered = {}
    /\ empty_cap = cap
    /\ interval_arg = {}
    /\ ui_pc = "ready"
    /\ ui_last = NoUiLast
    /\ last_print_attempt = <<>>
    /\ w_pc = "idle"
    /\ w_orders = <<>>
    /\ w_idx = 0
    /\ w_last = NoWLast
    /\ rt_worker = [o \in Orders |-> "none"]
    /\ local_item = {}
    /\ local_option = {}
    /\ c_pc = "idle"
    /\ c_order = 0
    /\ c_ids = <<>>
    /\ c_last = NoCLast
    /\ qc_cache = <<>>
    /\ qc_times = <<>>
    /\ qc_now = 0
    /\ qc_lock = 0
    /\ qc_th = [t \in Threads |-> IdleThread]
    /\ qc_model = <<>>
    /\ qc_last = NoQLast
    /\ r_lines = <<>>
    /\ p_pc = "idle"
    /\ p_kind = "none"
    /\ p_text = <<>>
    /\ p_line = 0
    /\ p_handle = "none"
    /\ p_data = <<>>
    /\ p_cause = "none"
    /\ p_sent = <<>>
    /\ p_log = <<>>
    /\ p_last = NoPLast
    /\ r_path = "none"
    /\ pb = NoCall
    /\ client = NewClient

\* the program starts against a remote store without orders, and no order
\* has been handed to the receipt template
NoChildRows ==
    /\ remote_item = {}
    /\ remote_option = {}
    /\ r_order = NoOrder

InitWith(cap) ==
    /\ InitProgram(cap)
    /\ remote_order = <<>>
    /\ aged = {}
    /\ NoChildRows

Init == InitWith(MaxEmpty)

(* ------------------------ UI thread operations ------------------------ *)
\* OrderMonitorThread.start_monitoring: sets the flag; QThread.start() does
\* nothing when the thread is still running
start_monitoring ==
    /\ ui_pc = "ready"
    /\ ~running
    /\ running' = TRUE
    /\ pc' = IF pc \in {"idle", "done"} THEN "loop" ELSE pc
    /\ UNCHANGED <<check_interval, auto_print_enabled, consecutive_empty_checks,
                   last_order_time, base_interval, current_interval>>
    /\ UNCHANGED <<tick, store, hist>>
    /\ UNCHANGED ext
    /\ UNCHANGED aux

WaitFinished_noJoin(p) == TRUE

\* QThread.wait(): returns once run() has returned (or the thread never ran)
WaitFinished(p) == p \in {"idle", "done"}

\* OrderMonitorThread.stop_monitoring, first statement: clears the flag
stop_monitoring ==
    /\ ui_pc = "ready"
    /\ running
    /\ running' = FALSE
    /\ ui_pc' = "waiting"
    /\ UNCHANGED <<pc, check_interval, auto_print_enabled, consecutive_empty_checks,
                   last_order_time, base_interval, current_interval>>
    /\ UNCHANGED <<tick, store, hist>>
    /\ UNCHANGED <<ui_last, widget, rt_worker>>
    /\ UNCHANGED aux

\* OrderMonitorThread.stop_monitoring, second statement: self.wait() returns
stop_monitoring_return ==
    /\ ui_pc = "waiting"
    /\ WaitFinished(pc)
    /\ ui_pc' = "ready"
    /\ UNCHANGED <<sched, tick, store, hist>>
    /\ UNCHANGED <<ui_last, widget, rt_worker>>
    /\ UNCHANGED aux

\* OrderMonitorThread.set_check_interval
set_check_interval(interval) ==
    /\ check_interval' = ClampInterval(interval)
    /\ interval_arg' = {interval}
    /\ UNCHANGED <<running, pc, auto_print_enabled, consecutive_empty_checks,
                   last_order_time, base_interval, current_interval>>
    /\ UNCHANGED <<tick, store, delivered, empty_cap>>
    /\ UNCHANGED ext
    /\ UNCHANGED aux

\* OrderWidget.toggle_auto_print -> SmartOrderMonitor.set_auto_print_mode
toggle_auto_print(enabled) ==
    /\ ui_pc = "ready"
    /\ auto_print_enabled' = enabled
    /\ LET interval == IF enabled THEN AutoPrintOnInterval ELSE AutoPrintOffInterval
       IN  /\ check_interval' = ClampInterval(interval)
           /\ interval_arg' = {interval}
    /\ UNCHANGED <<running, pc, consecutive_empty_checks,
                   last_order_time, base_interval, current_interval>>
    /\ UNCHANGED <<tick, store, delivered, empty_cap>>
    /\ UNCHANGED ext
    /\ UNCHANGED aux

\* the order's local row after a status update: <<is_printed, last_print_attempt>>
RowAfter(tbl, stamps, o) ==
    IF o \in DOMAIN tbl THEN <<tbl[o], stamps[o]>> ELSE <<FALSE, 0>>

\* UPDATE "order" SET is_printed = ?, last_print_attempt = <now> WHERE order_id = ?
StampWrite(stamps, o, ok) ==
    IF ok /\ o \in DOMAIN stamps THEN [stamps EXCEPT ![o] = FreshStamp(stamps[o])] ELSE stamps

PatchesRemote_always(is_printed) == TRUE

\* update_order_status: if self.cache.base_url and is_printed
PatchesRemote(is_printed) == is_printed

\* OrderWidget.update_order_status, called by on_status_changed /
\* on_checkbox_changed: local write of is_printed and last_print_attempt,
\* remote patch only for is_printed = True
update_order_status(o, is_printed, local_ok, outcome) ==
    /\ ui_pc = "ready"
    /\ o \in DOMAIN local_order
    /\ LET sent == local_ok /\ PatchesRemote(is_printed)
           patch == IF sent THEN outcome ELSE "none" IN
       /\ sent \/ outcome = "ok"   \* no patch is sent otherwise
       /\ local_order' = LocalWrite(local_order, o, is_printed, local_ok)
       /\ last_print_attempt' = StampWrite(last_print_attempt, o, local_ok)
       /\ remote_order' = IF sent THEN RemotePatch(remote_order, o, is_printed, outcome)
                          ELSE remote_order
       /\ ui_last' = [op |-> "update_order_status", order |-> o, value |-> is_printed,
                      local_ok |-> local_ok,
                      after |-> RowAfter(local_order', last_print_attempt', o)]
    /\ delivered' = IF local_ok /\ ~is_printed THEN delivered \ {o} ELSE delivered
    /\ UNCHANGED <<sched, tick, local_company, aged, empty_cap, interval_arg>>
    /\ UNCHANGED <<ui_pc, widget, rt_worker>>
    /\ UNCHANGED aux

\* OrderWidget.update_is_printed_status: local write of is_printed, remote
\* patch with the same value
update_is_printed_status(o, is_printed, local_ok, outcome) ==
    /\ ui_pc = "ready"
    /\ o \in DOMAIN local_order
    /\ LET patch == IF local_ok THEN outcome ELSE "none" IN
       /\ local_ok \/ outcome = "ok"   \* no patch is sent after a failed write
       /\ local_order' = LocalWrite(local_order, o, is_printed, local_ok)
       /\ remote_order' = RemotePatch(remote_order, o, is_printed, patch)
       /\ ui_last' = [op |-> "update_is_printed_status", order |-> o, value |-> is_printed,
                      local_ok |-> local_ok,
                      after |-> RowAfter(local_order', last_print_attempt, o)]
    /\ delivered' = IF local_ok /\ ~is_printed THEN delivered \ {o} ELSE delivered
    /\ UNCHANGED <<sched, tick, local_company, aged, empty_cap, interval_arg>>
    /\ UNCHANGED <<ui_pc, last_print_attempt, widget, rt_worker>>
    /\ UNCHANGED aux

\* OrderWidget.refresh_orders: the three order tables are fetched in one try
\* block, then the table on screen is rebuilt from the mirror
refresh_orders ==
    /\ ui_pc = "ready"
    /\ \E fail_at \in {"order", "order_item", "order_item_option", "none"} :
          /\ local_order' = IF fail_at = "order" THEN local_order
                            ELSE FetchAndStoreTable(remote_order)
          /\ last_print_attempt' = IF fail_at = "order" THEN last_print_attempt
                                   ELSE FetchedStamps(remote_order)
          /\ local_item' = IF fail_at \in {"order", "order_item"} THEN local_item
                           ELSE FetchAndStoreTable(remote_item)
          /\ local_option' = IF fail_at = "none" THEN FetchAndStoreTable(remote_option)
                             ELSE local_option
    /\ UNCHANGED <<sched, tick, remote_order, local_company, aged, hist>>
    /\ UNCHANGED ext
    /\ UNCHANGED <<remote_item, remote_option, cancel>>
    /\ UNCHANGED aux2

\* get_unprinteed_orders: LIMIT 10
WidgetBatchLimit == 10

\* OrderWidget.get_unprinteed_orders: WHERE is_printed = 0, JOIN company,
\* ORDER BY created_at DESC, LIMIT 10; no bound on the order's age
get_unprinteed_orders(tbl, company) ==
    IF company THEN Take(NewestFirst({o \in DOMAIN tbl : ~tbl[o]}), WidgetBatchLimit)
    ELSE <<>>

\* OrderWidget.check_for_updates up to the for loop: return when auto-print
\* is off, sync of the order tables in the outer try, list of unprinted orders
check_for_updates ==
    /\ ui_pc = "ready"
    /\ w_pc = "idle"
    /\ auto_print_enabled
    /\ \E fail_at \in {"order", "order_item", "none"} :
          /\ local_order' = IF fail_at = "order" THEN local_order
                            ELSE FetchAndStoreTable(remote_order)
          /\ last_print_attempt' = IF fail_at = "order" THEN last_print_attempt
                                   ELSE FetchedStamps(remote_order)
          /\ IF fail_at # "none"
             THEN \* except Exception: the notice label shows the error
                  /\ w_last' = [NoWLast EXCEPT !.outcome = "sync_error", !.error = TRUE]
                  /\ UNCHANGED <<w_pc, w_orders, w_idx>>
             ELSE LET found == get_unprinteed_orders(local_order', local_company) IN
                  /\ w_orders' = found
                  /\ w_idx' = IF found = <<>> THEN 0 ELSE 1
                  /\ w_pc' = IF found = <<>> THEN "idle" ELSE "batch"
                  /\ w_last' = NoWLast
    /\ UNCHANGED <<sched, tick, remote_order, local_company, aged, hist>>
    /\ UNCHANGED <<ui_pc, ui_last, rt_worker>>
    /\ UNCHANGED aux

\* one pass of the for loop of check_for_updates, or the refresh_orders()
\* after the loop.  order_detail.get("order_id") is evaluated on the value
\* join_order_detail returned: on an absent detail it raises, and the outer
\* except ends the whole batch with the error notice
CheckForUpdatesOrder ==
    /\ w_pc = "batch"
    /\ IF w_idx > Len(w_orders)
       THEN /\ \E failed \in BOOLEAN :
                  /\ local_order' = IF failed THEN local_order
                                    ELSE FetchAndStoreTable(remote_order)
                  /\ last_print_attempt' = IF failed THEN last_print_attempt
                                           ELSE FetchedStamps(remote_order)
            /\ w_pc' = "idle"
            /\ w_orders' = <<>>
            /\ w_idx' = 0
            /\ w_last' = NoWLast
            /\ UNCHANGED <<remote_order, delivered>>
       ELSE LET o == w_orders[w_idx] IN
            IF ~JoinOrderDetail(o)
            THEN /\ w_last' = [order |-> o, outcome |-> "no_detail", error |-> TRUE]
                 /\ w_pc' = "idle"
                 /\ w_orders' = <<>>
                 /\ w_idx' = 0
                 /\ UNCHANGED <<local_order, remote_order, last_print_attempt, delivered>>
            ELSE \E status_ok \in BOOLEAN :
                 IF ~status_ok
                 THEN \* check_printer_status failed: continue
                      /\ w_last' = [order |-> o, outcome |-> "status_bad", error |-> FALSE]
                      /\ w_idx' = w_idx + 1
                      /\ UNCHANGED <<w_pc, w_orders>>
                      /\ UNCHANGED <<local_order, remote_order, last_print_attempt, delivered>>
                 ELSE \* process_auto_print: no print for a row already printed;
                      \* update_order_status(o, success), then on success
                      \* update_is_printed_status(o, True)
                      \E customer \in BOOLEAN, ok1 \in BOOLEAN, ok2 \in BOOLEAN,
                         p1 \in PatchOutcomes, p2 \in PatchOutcomes :
                         LET skipped == local_order[o]
                             success == skipped \/ customer
                             sent1 == ~skipped /\ ok1 /\ PatchesRemote(success)
                             tbl1 == IF skipped THEN local_order
                                     ELSE LocalWrite(local_order, o, success, ok1)
                             rem1 == IF sent1 THEN RemotePatch(remote_order, o, TRUE, p1)
                                     ELSE remote_order
                             sent2 == success /\ ok2 IN
                         /\ sent1 \/ p1 = "ok"
                         /\ sent2 \/ p2 = "ok"
                         /\ ~skipped \/ (ok1 /\ customer)
                         /\ success \/ ok2
                         /\ local_order' = IF success THEN LocalWrite(tbl1, o, TRUE, ok2)
                                           ELSE tbl1
                         /\ last_print_attempt' = IF skipped THEN last_print_attempt
                                                  ELSE StampWrite(last_print_attempt, o, ok1)
                         /\ remote_order' = IF sent2 THEN RemotePatch(rem1, o, TRUE, p2)
                                            ELSE rem1
                         /\ delivered' = IF success /\ (ok1 \/ ok2) /\ ~skipped
                                         THEN delivered \cup {o} ELSE delivered
                         /\ w_last' = [order |-> o,
                                       outcome |-> IF skipped THEN "already_printed"
                                                   ELSE IF success THEN "printed"
                                                   ELSE "print_failed",
                                       error |-> FALSE]
                         /\ w_idx' = w_idx + 1
                         /\ UNCHANGED <<w_pc, w_orders>>
    /\ UNCHANGED <<sched, tick, local_company, aged, empty_cap, interval_arg>>
    /\ UNCHANGED <<ui_pc, ui_last, rt_worker>>
    /\ UNCHANGED aux

(* --------------------------- order cancellation ----------------------- *)
\* outcome of one DELETE request of _make_request: "ok" = rows deleted and
\* the response parsed; "lost" = rows deleted but no parsed response reached
\* the client (timeout, raise_for_status or resp.json() raised): None;
\* "fail" = nothing deleted: None
DeleteOutcomes == {"ok", "lost", "fail"}

ItemsOf(o, rows) == {r \in rows : r[1] = o}
OptionsOf(o, rows) == {r \in rows : r[1] = o}

\* OrderWidget.cancel_order: one pass of the loop over orders_to_cancel
\* begins for a row of the table on screen
cancel_order(o) ==
    /\ ui_pc = "ready"
    /\ c_pc = "idle"
    /\ o \in DOMAIN local_order
    /\ c_pc' = "get_items"
    /\ c_order' = o
    /\ c_ids' = <<>>
    /\ c_last' = [NoCLast EXCEPT !.order = o]
    /\ UNCHANGED <<sched, tick, store, hist, ext, children>>
    /\ UNCHANGED aux2

\* _delete_order_cascade step 1: GET order_item?order_id=eq.<o>; the option
\* DELETE is issued only for a non-empty answer
GetOrderItems ==
    /\ c_pc = "get_items"
    /\ \E answered \in BOOLEAN :
          LET ids == ItemsOf(c_order, remote_item) IN
          /\ c_ids' = IF answered THEN <<ids>> ELSE <<>>
          /\ c_pc' = IF answered /\ ids # {} THEN "del_options" ELSE "del_items"
    /\ UNCHANGED <<sched, tick, store, hist, ext, children, c_order, c_last>>
    /\ UNCHANGED aux2

\* step 2: DELETE order_item_option?order_item_id=in.(<ids>); the result is not read
DeleteOptionRows ==
    /\ c_pc = "del_options"
    /\ \E out \in DeleteOutcomes :
          /\ remote_option' = IF out = "fail" THEN remote_option
                              ELSE {r \in remote_option : <<r[1], r[2]>> \notin c_ids[1]}
          /\ c_last' = IF out = "fail"
                       THEN [c_last EXCEPT !.failed = @ \cup {"order_item_option"}]
                       ELSE c_last
    /\ c_pc' = "del_items"
    /\ UNCHANGED <<sched, tick, store, hist, ext, remote_item, local_item, local_option,
                   c_order, c_ids>>
    /\ UNCHANGED aux2

\* step 3: DELETE order_item?order_id=eq.<o>; the result is not read
DeleteItemRows ==
    /\ c_pc = "del_items"
    /\ \E out \in DeleteOutcomes :
          /\ remote_item' = IF out = "fail" THEN remote_item
                            ELSE remote_item \ ItemsOf(c_order, remote_item)
          /\ c_last' = IF out = "fail" THEN [c_last EXCEPT !.failed = @ \cup {"order_item"}]
                       ELSE c_last
    /\ c_pc' = "del_order"
    /\ UNCHANGED <<sched, tick, store, hist, ext, remote_option, local_item, local_option,
                   c_order, c_ids>>
    /\ UNCHANGED aux2

\* return data is not None
CascadeResult(out) == out = "ok"

\* step 4: DELETE order?order_id=eq.<o>, and the result of delete_order
DeleteOrderRow ==
    /\ c_pc = "del_order"
    /\ \E out \in DeleteOutcomes :
          /\ remote_order' = IF out = "fail" THEN remote_order
                             ELSE [p \in DOMAIN remote_order \ {c_order} |-> remote_order[p]]
          /\ aged' = IF out = "fail" THEN aged ELSE aged \ {c_order}
          /\ c_last' = [c_last EXCEPT !.supabase_success = CascadeResult(out),
                          !.failed = IF out = "fail" THEN @ \cup {"order"} ELSE @]
    /\ c_pc' = "local"
    /\ UNCHANGED <<sched, tick, local_order, local_company, last_print_attempt, hist, ext,
                   children, c_order, c_ids>>
    /\ UNCHANGED aux2

\* SupabaseCache.delete_order_from_cache: the local rows of the order are
\* deleted in one transaction, options first; False when it failed
DeleteOrderFromCache(o, ok) ==
    /\ local_option' = IF ok THEN local_option \ OptionsOf(o, local_option) ELSE local_option
    /\ local_item' = IF ok THEN local_item \ ItemsOf(o, local_item) ELSE local_item
    /\ local_order' = IF ok THEN [p \in DOMAIN local_order \ {o} |-> local_order[p]]
                      ELSE local_order
    /\ last_print_attempt' = IF ok THEN [p \in DOMAIN last_print_attempt \ {o} |->
                                            last_print_attempt[p]]
                             ELSE last_print_attempt

\* cancel_order calls delete_order_from_cache whatever delete_order returned
CallsLocalDelete(supabase_success) == TRUE

\* cancel_order after delete_order returned: the local deletion and the
\* entry in successful_cancellations or failed_cancellations
CancelLocal ==
    /\ c_pc = "local"
    /\ \E ok \in BOOLEAN :
          LET called == CallsLocalDelete(c_last.supabase_success)
              cache_success == called /\ ok IN
          /\ called \/ ok
          /\ DeleteOrderFromCache(c_order, cache_success)
          /\ c_last' = [c_last EXCEPT !.cache_success = cache_success,
                          !.reported = IF c_last.supabase_success /\ cache_success
                                       THEN "success" ELSE "failed",
                          !.failed = IF called /\ ~ok THEN @ \cup {"local"} ELSE @]
    /\ c_pc' = "idle"
    /\ c_order' = 0
    /\ c_ids' = <<>>
    /\ UNCHANGED <<sched, tick, remote_order, local_company, aged, hist, ext,
                   remote_item, remote_option>>
    /\ UNCHANGED aux2

CancelStep ==
    \/ GetOrderItems
    \/ DeleteOptionRows
    \/ DeleteItemRows
    \/ DeleteOrderRow
    \/ CancelLocal

(* ------------------- delete_order of the caching client --------------- *)
\* OptimizedSupabaseClient.delete_order(order_id) enters _delete_order_cascade
delete_order(o) ==
    /\ c_pc = "idle"
    /\ c_pc' = "get_items"
    /\ c_order' = o
    /\ c_ids' = <<>>
    /\ c_last' = [NoCLast EXCEPT !.order = o]
    /\ qc_last' = NoQLast
    /\ UNCHANGED <<qc_cache, qc_times, qc_now, qc_lock, qc_th, qc_model>>
    /\ UNCHANGED <<monitor, children, aux3>>

\* QueryCache.clear(pattern) on one of its maps, as a whole
Cleared(d, pattern) == [k \in {x \in DOMAIN d : ~Contains(pattern, x)} |-> d[k]]

InvalidatesCache_always(success) == TRUE

\* if success: the three clear calls
InvalidatesCache(success) == success

\* delete_order after _delete_order_cascade returned: the cache entries of
\* order lists, order items and order options are cleared, return success
delete_order_return ==
    /\ c_pc = "local"
    /\ LET Invalidated(d) ==
              IF InvalidatesCache(c_last.supabase_success)
              THEN Cleared(Cleared(Cleared(d, <<"orders_basic">>), <<"order_items">>),
                           <<"order_options">>)
              ELSE d IN
       /\ qc_cache' = Invalidated(qc_cache)
       /\ qc_times' = Invalidated(qc_times)
       /\ qc_model' = Invalidated(qc_model)
    /\ c_pc' = "idle"
    /\ c_order' = 0
    /\ c_ids' = <<>>
    /\ UNCHANGED <<c_last, qc_now, qc_lock, qc_th, qc_last>>
    /\ UNCHANGED <<monitor, children, aux3>>

\* get_orders_basic, get_order_items, get_order_options and get_menu_items:
\* the cached value if the key is cached, not expired and not empty, else
\* the rows of a GET, stored under the key when the answer is not empty
CachedRead(kind) ==
    /\ c_pc = "idle"
    /\ LET k == <<kind, "_", "args">>
           ttl == CASE kind = "orders_basic" -> 300
                    [] kind = "menu_items" -> 1800
                    [] OTHER -> 600
           rows == CASE kind = "orders_basic" -> DOMAIN remote_order
                     [] kind = "order_items" -> remote_item
                     [] kind = "order_options" -> remote_option
                     [] OTHER -> {1}
           expired == k \in DOMAIN qc_cache /\ qc_now - qc_times[k] > ttl
           cache == IF expired THEN Without(qc_cache, k) ELSE qc_cache
           times == IF expired THEN Without(qc_times, k) ELSE qc_times
           model == IF expired THEN Without(qc_model, k) ELSE qc_model IN
       IF k \in DOMAIN cache /\ cache[k] # {}
       THEN /\ qc_last' = [NoQLast EXCEPT !.op = "cached", !.key = k, !.ttl = ttl,
                                           !.ret = cache[k]]
            /\ UNCHANGED <<qc_cache, qc_times, qc_model>>
       ELSE \E answered \in BOOLEAN :
               LET data == IF answered THEN rows ELSE {} IN
               /\ qc_cache' = IF data = {} THEN cache ELSE With(cache, k, data)
               /\ qc_times' = IF data = {} THEN times ELSE With(times, k, qc_now)
               /\ qc_model' = IF data = {} THEN model ELSE With(model, k, data)
               /\ qc_last' = [NoQLast EXCEPT !.op = "fetched", !.key = k, !.ttl = ttl,
                                              !.ret = data]
    /\ UNCHANGED <<qc_now, qc_lock, qc_th>>
    /\ UNCHANGED <<monitor, children, cancel, aux3>>

(* ------------------------- query cache operations --------------------- *)
LockFree_noLock(t) == TRUE

\* with self.lock: the thread enters when no other thread holds the lock
LockFree(t) == qc_lock = 0

\* the with block is left: the lock is free and the call has returned
Return(t, op, ret) ==
    /\ qc_lock' = 0
    /\ qc_last' = [thread |-> t, op |-> op, key |-> qc_th[t].key, ttl |-> qc_th[t].ttl,
                   pattern |-> qc_th[t].pattern, ret |-> ret]
    /\ qc_th' = [qc_th EXCEPT ![t] = IdleThread]

\* time passes
ClockTick ==
    /\ qc_now < MaxClock
    /\ qc_now' = qc_now + 1
    /\ UNCHANGED <<qc_cache, qc_times, qc_lock, qc_th, qc_model, qc_last>>
    /\ UNCHANGED <<monitor, children, cancel, aux3>>

\* QueryCache.get enters: if key not in self.cache: return None
get_call(t, k, ttl) ==
    /\ qc_th[t].pc = "idle"
    /\ LockFree(t)
    /\ IF k \notin DOMAIN qc_cache
       THEN /\ qc_lock' = 0
            /\ qc_last' = [NoQLast EXCEPT !.thread = t, !.op = "get", !.key = k, !.ttl = ttl]
            /\ UNCHANGED qc_th
       ELSE /\ qc_lock' = t
            /\ qc_th' = [qc_th EXCEPT ![t] = [IdleThread EXCEPT !.pc = "get_ttl",
                                                              !.key = k, !.ttl = ttl]]
            /\ UNCHANGED qc_last
    /\ UNCHANGED <<qc_cache, qc_times, qc_now, qc_model>>
    /\ UNCHANGED <<monitor, children, cancel, aux3>>

\* the expiry test, and return self.cache[key] for an entry not expired
get_ttl(t) ==
    /\ qc_th[t].pc = "get_ttl"
    /\ LET k == qc_th[t].key
           expired == /\ k \in DOMAIN qc_times
                      /\ qc_now - qc_times[k] > EffectiveTtl(qc_th[t].ttl) IN
       IF expired
       THEN /\ qc_th' = [qc_th EXCEPT ![t].pc = "get_del"]
            /\ UNCHANGED <<qc_lock, qc_last>>
       ELSE Return(t, "get", IF k \in DOMAIN qc_cache THEN qc_cache[k] ELSE KeyErrorRaised)
    /\ UNCHANGED <<qc_cache, qc_times, qc_now, qc_model>>
    /\ UNCHANGED <<monitor, children, cancel, aux3>>

\* TTL expired: del self.cache[key]
get_del(t) ==
    /\ qc_th[t].pc = "get_del"
    /\ LET k == qc_th[t].key IN
       IF k \in DOMAIN qc_cache
       THEN /\ qc_cache' = Without(qc_cache, k)
            /\ qc_th' = [qc_th EXCEPT ![t].pc = "get_del_time"]
            /\ UNCHANGED <<qc_lock, qc_last>>
       ELSE /\ Return(t, "get", KeyErrorRaised)
            /\ UNCHANGED qc_cache
    /\ UNCHANGED <<qc_times, qc_now, qc_model>>
    /\ UNCHANGED <<monitor, children, cancel, aux3>>

\* del self.cache_times[key]; return None
get_del_time(t) ==
    /\ qc_th[t].pc = "get_del_time"
    /\ LET k == qc_th[t].key IN
       IF k \in DOMAIN qc_times
       THEN /\ qc_times' = Without(qc_times, k)
            /\ qc_model' = Without(qc_model, k)
            /\ Return(t, "get", NoValue)
       ELSE /\ Return(t, "get", KeyErrorRaised)
            /\ UNCHANGED <<qc_times, qc_model>>
    /\ UNCHANGED <<qc_cache, qc_now>>
    /\ UNCHANGED <<monitor, children, cancel, aux3>>

\* QueryCache.set enters: self.cache[key] = value
set_call(t, k, v) ==
    /\ qc_th[t].pc = "idle"
    /\ LockFree(t)
    /\ qc_lock' = t
    /\ qc_cache' = With(qc_cache, k, v)
    /\ qc_th' = [qc_th EXCEPT ![t] = [IdleThread EXCEPT !.pc = "set_time", !.key = k,
                                                      !.value = v]]
    /\ UNCHANGED <<qc_times, qc_now, qc_model, qc_last>>
    /\ UNCHANGED <<monitor, children, cancel, aux3>>

\* self.cache_times[key] = datetime.now()
set_time(t) ==
    /\ qc_th[t].pc = "set_time"
    /\ qc_times' = With(qc_times, qc_th[t].key, qc_now)
    /\ qc_model' = With(qc_model, qc_th[t].key, qc_th[t].value)
    /\ Return(t, "set", NoValue)
    /\ UNCHANGED <<qc_cache, qc_now>>
    /\ UNCHANGED <<monitor, children, cancel, aux3>>

\* QueryCache.clear enters: self.cache.clear() for pattern None, else
\* keys_to_remove = [k for k in self.cache.keys() if pattern in k]
clear_call(t, pattern) ==
    /\ qc_th[t].pc = "idle"
    /\ LockFree(t)
    /\ qc_lock' = t
    /\ IF pattern = NoPattern
       THEN /\ qc_cache' = <<>>
            /\ qc_th' = [qc_th EXCEPT ![t] = [IdleThread EXCEPT !.pc = "clear_times",
                                                !.before = <<qc_cache, qc_times>>]]
       ELSE /\ qc_th' = [qc_th EXCEPT ![t] =
                           [IdleThread EXCEPT !.pc = "clear_loop", !.pattern = pattern,
                              !.todo = KeyList({k \in DOMAIN qc_cache : Contains(pattern, k)}),
                              !.before = <<qc_cache, qc_times>>]]
            /\ UNCHANGED qc_cache
    /\ UNCHANGED <<qc_times, qc_now, qc_model, qc_last>>
    /\ UNCHANGED <<monitor, children, cancel, aux3>>

\* self.cache_times.clear()
clear_times(t) ==
    /\ qc_th[t].pc = "clear_times"
    /\ qc_times' = <<>>
    /\ qc_model' = <<>>
    /\ Return(t, "clear", NoValue)
    /\ UNCHANGED <<qc_cache, qc_now>>
    /\ UNCHANGED <<monitor, children, cancel, aux3>>

\* for key in keys_to_remove: del self.cache[key]
clear_loop(t) ==
    /\ qc_th[t].pc = "clear_loop"
    /\ IF qc_th[t].todo = <<>>
       THEN /\ Return(t, "clear", NoValue)
            /\ UNCHANGED qc_cache
       ELSE LET k == Head(qc_th[t].todo) IN
            IF k \in DOMAIN qc_cache
            THEN /\ qc_cache' = Without(qc_cache, k)
                 /\ qc_th' = [qc_th EXCEPT ![t].pc = "clear_time"]
                 /\ UNCHANGED <<qc_lock, qc_last>>
            ELSE /\ Return(t, "clear", KeyErrorRaised)
                 /\ UNCHANGED qc_cache
    /\ UNCHANGED <<qc_times, qc_now, qc_model>>
    /\ UNCHANGED <<monitor, children, cancel, aux3>>

\* if key in self.cache_times: del self.cache_times[key]
clear_time(t) ==
    /\ qc_th[t].pc = "clear_time"
    /\ LET k == Head(qc_th[t].todo) IN
       /\ qc_times' = IF k \in DOMAIN qc_times THEN Without(qc_times, k) ELSE qc_times
       /\ qc_model' = IF k \in DOMAIN qc_model THEN Without(qc_model, k) ELSE qc_model
       /\ qc_th' = [qc_th EXCEPT ![t].pc = "clear_loop", ![t].todo = Tail(@)]
    /\ UNCHANGED <<qc_cache, qc_now, qc_lock, qc_last>>
    /\ UNCHANGED <<monitor, children, cancel, aux3>>

CacheStep(t) ==
    \/ get_ttl(t)
    \/ get_del(t)
    \/ get_del_time(t)
    \/ set_time(t)
    \/ clear_times(t)
    \/ clear_loop(t)
    \/ clear_time(t)

(* --------------------------- realtime monitor ------------------------- *)
\* RealtimeOrderMonitor._on_new_order, once per INSERT event of the order
\* table: refresh_orders(), then a new print worker thread when auto-print is on
on_new_order(o) ==
    /\ ui_pc = "ready"
    /\ o \in DOMAIN remote_order
    /\ rt_worker[o] = "none"
    /\ \E failed \in BOOLEAN :
          /\ local_order' = IF failed THEN local_order ELSE FetchAndStoreTable(remote_order)
          /\ last_print_attempt' = IF failed THEN last_print_attempt
                                   ELSE FetchedStamps(remote_order)
    /\ rt_worker' = [rt_worker EXCEPT ![o] = IF auto_print_enabled THEN "start"
                                            ELSE "finished"]
    /\ UNCHANGED <<sched, tick, remote_order, local_company, aged, hist>>
    /\ UNCHANGED <<ui_pc, ui_last, widget>>
    /\ UNCHANGED aux

\* print_worker of _process_realtime_auto_print up to the call of
\* print_both_receipts: return on an absent detail or a bad printer status
print_worker(o) ==
    /\ rt_worker[o] = "start"
    /\ \E status_ok \in BOOLEAN :
          rt_worker' = [rt_worker EXCEPT ![o] = IF JoinOrderDetail(o) /\ status_ok
                                                THEN "printing" ELSE "finished"]
    /\ UNCHANGED <<sched, tick, store, hist>>
    /\ UNCHANGED <<ui_pc, ui_last, widget>>
    /\ UNCHANGED aux

\* print_worker after print_both_receipts returned: results.get("customer"),
\* then order_widget.update_is_printed_status(order_id, True) on success
print_worker_return(o) ==
    /\ rt_worker[o] = "printing"
    /\ \E customer \in BOOLEAN, local_ok \in BOOLEAN, outcome \in PatchOutcomes :
          LET patch == IF customer /\ local_ok THEN outcome ELSE "none" IN
          /\ (customer /\ local_ok) \/ outcome = "ok"
          /\ customer \/ local_ok
          /\ local_order' = IF customer THEN LocalWrite(local_order, o, TRUE, local_ok)
                            ELSE local_order
          /\ remote_order' = RemotePatch(remote_order, o, TRUE, patch)
          /\ delivered' = IF customer /\ local_ok /\ o \in DOMAIN local_order
                          THEN delivered \cup {o} ELSE delivered
    /\ rt_worker' = [rt_worker EXCEPT ![o] = "finished"]
    /\ UNCHANGED <<sched, tick, local_company, aged, last_print_attempt,
                   empty_cap, interval_arg>>
    /\ UNCHANGED <<ui_pc, ui_last, widget>>
    /\ UNCHANGED aux

\* PrinterManager.print_both_receipts takes no lock: a call is a print
\* attempt on both sinks from its entry to its return
PrintAttempts ==
    (IF pc = "printing" THEN 1 ELSE 0)
      + Cardinality({o \in Orders : rt_worker[o] = "printing"})

(* ---------------------------- environment ----------------------------- *)
\* a customer places an order: a new unprinted row in the remote table
CreateOrder(o) ==
    /\ o \notin DOMAIN remote_order
    /\ \A p \in 1..(o - 1) : p \in DOMAIN remote_order
    /\ remote_order' = remote_order @@ (o :> FALSE)
    /\ UNCHANGED <<sched, tick, local_order, local_company, aged, last_print_attempt, hist>>
    /\ UNCHANGED ext
    /\ UNCHANGED aux

\* the order is cancelled at another terminal: its row leaves the remote table
RemoteDelete(o) ==
    /\ o \in DOMAIN remote_order
    /\ remote_order' = [p \in DOMAIN remote_order \ {o} |-> remote_order[p]]
    /\ aged' = aged \ {o}
    /\ UNCHANGED <<sched, tick, local_order, local_company, last_print_attempt, hist>>
    /\ UNCHANGED ext
    /\ UNCHANGED aux

\* the order's created_at falls out of the last hour; older orders fall out first
AgeOrder(o) ==
    /\ o \in DOMAIN remote_order
    /\ o \notin aged
    /\ \A p \in 1..(o - 1) : p \in aged
    /\ aged' = aged \cup {o}
    /\ UNCHANGED <<sched, tick, remote_order, local_order, local_company,
                   last_print_attempt, hist>>
    /\ UNCHANGED ext
    /\ UNCHANGED aux

(* --------------------------- monitor thread --------------------------- *)
\* run(): while self._running; current_interval = _calculate_dynamic_interval();
\* an exception escaping to run()'s except leads to the 5-second back-off
LoopHead ==
    /\ pc = "loop"
    /\ IF LoopCondition(running)
       THEN \E raised \in BOOLEAN :
               IF raised
               THEN /\ pc' = "backoff"
                    /\ UNCHANGED <<base_interval, current_interval>>
               ELSE /\ base_interval' = BaseInterval(auto_print_enabled, check_interval)
                    /\ current_interval' =
                          DynamicInterval(BaseInterval(auto_print_enabled, check_interval),
                                          consecutive_empty_checks)
                    /\ pc' = "check"
       ELSE /\ pc' = "done"
            /\ UNCHANGED <<base_interval, current_interval>>
    /\ UNCHANGED <<running, check_interval, auto_print_enabled,
                   consecutive_empty_checks, last_order_time>>
    /\ UNCHANGED <<tick, store, hist>>
    /\ UNCHANGED ext
    /\ UNCHANGED aux

\* run(): except Exception: time.sleep(5), then the while condition again
Backoff ==
    /\ pc = "backoff"
    /\ pc' = "loop"
    /\ UNCHANGED <<running, check_interval, auto_print_enabled, consecutive_empty_checks,
                   last_order_time, base_interval, current_interval>>
    /\ UNCHANGED <<tick, store, hist>>
    /\ UNCHANGED ext
    /\ UNCHANGED aux

\* _check_and_process_orders, step 1: _check_connection, emit, return on failure
CheckConnection ==
    /\ pc = "check"
    /\ \E ok \in BOOLEAN :
          /\ connection_ok' = ok
          /\ events' = {<<"connection_status_changed", ok>>}
          /\ pc' = ProbeNextPc(ok)
    /\ UNCHANGED <<new_orders, idx, attempted, last>>
    /\ UNCHANGED <<running, check_interval, auto_print_enabled, consecutive_empty_checks,
                   last_order_time, base_interval, current_interval>>
    /\ UNCHANGED <<store, hist>>
    /\ UNCHANGED ext
    /\ UNCHANGED aux

SyncNextPc_abort(failed, next) == IF failed THEN "sleep" ELSE next

\* _sync_essential_tables: the try/except sits inside the for loop, so the
\* loop goes on to the next table whatever the fetch did
SyncNextPc(failed, next) == next

\* _sync_essential_tables, iteration for "order"
SyncOrderTable ==
    /\ pc = "sync"
    /\ \E failed \in BOOLEAN :
          /\ local_order' = IF failed THEN local_order ELSE FetchAndStoreTable(remote_order)
          /\ last_print_attempt' = IF failed THEN last_print_attempt
                                   ELSE FetchedStamps(remote_order)
          /\ events' = events \cup {<<"sync">>}
                               \cup (IF failed THEN {<<"sync_failed_order">>} ELSE {})
          /\ pc' = SyncNextPc(failed, "sync_company")
    /\ UNCHANGED <<running, check_interval, auto_print_enabled, consecutive_empty_checks,
                   last_order_time, base_interval, current_interval>>
    /\ UNCHANGED <<connection_ok, new_orders, idx, attempted, last>>
    /\ UNCHANGED <<remote_order, local_company, aged, hist>>
    /\ UNCHANGED <<ui_pc, ui_last, widget, rt_worker>>
    /\ UNCHANGED aux

\* _sync_essential_tables, iteration for "company"
SyncCompanyTable ==
    /\ pc = "sync_company"
    /\ \E failed \in BOOLEAN :
          /\ local_company' = IF failed THEN local_company ELSE TRUE
          /\ events' = events \cup (IF failed THEN {<<"sync_failed_company">>} ELSE {})
          /\ pc' = SyncNextPc(failed, "query")
    /\ UNCHANGED <<running, check_interval, auto_print_enabled, consecutive_empty_checks,
                   last_order_time, base_interval, current_interval>>
    /\ UNCHANGED <<connection_ok, new_orders, idx, attempted, last>>
    /\ UNCHANGED <<remote_order, local_order, aged, last_print_attempt, hist>>
    /\ UNCHANGED ext
    /\ UNCHANGED aux

\* _sync_essential_tables: for table in essential_tables
SyncEssentialTables == SyncOrderTable \/ SyncCompanyTable

\* _check_and_process_orders, steps 3 and 4: query, counters, new_orders_found
QueryNewOrders ==
    /\ pc = "query"
    /\ \E query_ok \in BOOLEAN :
          IF ~query_ok
          THEN \* sqlite3 raised: caught by the except of _check_and_process_orders
               /\ pc' = "sleep"
               /\ UNCHANGED <<new_orders, idx, events, consecutive_empty_checks, last_order_time>>
          ELSE IF GetNewOrders # <<>>
          THEN /\ new_orders' = GetNewOrders
               /\ consecutive_empty_checks' = 0
               /\ last_order_time' = FreshStamp(last_order_time)
               /\ events' = events \cup {<<"query">>, <<"new_orders_found">>}
               /\ IF auto_print_enabled
                  THEN pc' = "batch" /\ idx' = 1
                  ELSE pc' = "sleep" /\ idx' = 0
          ELSE /\ consecutive_empty_checks < empty_cap
               /\ consecutive_empty_checks' = consecutive_empty_checks + 1
               /\ events' = events \cup {<<"query">>}
               /\ pc' = "sleep"
               /\ UNCHANGED <<new_orders, idx, last_order_time>>
    /\ UNCHANGED <<running, check_interval, auto_print_enabled, base_interval, current_interval>>
    /\ UNCHANGED <<connection_ok, attempted, last>>
    /\ UNCHANGED <<store, hist>>
    /\ UNCHANGED ext
    /\ UNCHANGED aux

\* _process_auto_print_orders: loop head, printer status check, detail join
BatchIteration(outcomes) ==
    /\ pc = "batch"
    /\ IF idx > Len(new_orders) \/ BreakOnStop(running)
       THEN \* loop exhausted, or break on the stop flag; the locals go out of scope
            /\ pc' = "sleep"
            /\ new_orders' = <<>>
            /\ idx' = 0
            /\ attempted' = <<>>
            /\ last' = NoLast
            /\ UNCHANGED events
       ELSE LET o == new_orders[idx] IN
            /\ attempted' = Append(attempted, o)
            /\ UNCHANGED new_orders
            /\ \E outcome \in outcomes :
                  IF outcome = "ready" /\ JoinOrderDetail(o)
                  THEN /\ pc' = "printing"
                       /\ last' = [NoLast EXCEPT !.order = o, !.outcome = "printing"]
                       /\ UNCHANGED <<idx, events>>
                  ELSE LET out == IF outcome = "ready" THEN "no_detail" ELSE outcome IN
                       /\ last' = [NoLast EXCEPT !.order = o, !.outcome = out,
                                     !.signal = IF out = "exception"
                                                THEN "auto_print_failed" ELSE "none"]
                       /\ idx' = idx + 1
                       /\ pc' = AfterOrderPc(out)
                       /\ UNCHANGED events
    /\ UNCHANGED <<running, check_interval, auto_print_enabled, consecutive_empty_checks,
                   last_order_time, base_interval, current_interval>>
    /\ UNCHANGED connection_ok
    /\ UNCHANGED <<store, hist>>
    /\ UNCHANGED ext
    /\ UNCHANGED aux

\* what the try block of an iteration can meet before the print: the printer
\* status check fails, something raises, or the printer is ready
BatchHead == BatchIteration({"status_bad", "exception", "ready"})

\* _process_auto_print_orders after print_both_receipts returned:
\* _execute_auto_print's reduction, the signal, _update_print_status
PrintReturn ==
    /\ pc = "printing"
    /\ LET o == new_orders[idx] IN
       \E customer \in BOOLEAN, kitchen \in BOOLEAN :
          IF OverallSuccess(customer, kitchen)
          THEN \E local_ok \in BOOLEAN, outcome \in PatchOutcomes :
                  LET patch == IF local_ok THEN outcome ELSE "none" IN
                  /\ local_ok \/ outcome = "ok"   \* no patch is sent after a failed write
                  /\ local_order' = LocalWrite(local_order, o, TRUE, local_ok)
                  /\ remote_order' = RemotePatch(remote_order, o, TRUE, patch)
                  /\ last' = [order |-> o, outcome |-> "printed",
                              signal |-> "auto_print_completed",
                              customer |-> customer, kitchen |-> kitchen,
                              local_ok |-> local_ok, patch |-> patch,
                              logged |-> MonitorPatchLogged(patch)]
                  /\ delivered' = IF local_ok /\ o \in DOMAIN local_order
                                  THEN delivered \cup {o} ELSE delivered
                  /\ pc' = AfterOrderPc("printed")
          ELSE /\ last' = [NoLast EXCEPT !.order = o, !.outcome = "print_failed",
                                         !.signal = "auto_print_failed",
                                         !.customer = customer, !.kitchen = kitchen]
               /\ pc' = AfterOrderPc("print_failed")
               /\ UNCHANGED <<local_order, remote_order, delivered>>
    /\ idx' = idx + 1
    /\ UNCHANGED <<running, check_interval, auto_print_enabled, consecutive_empty_checks,
                   last_order_time, base_interval, current_interval>>
    /\ UNCHANGED <<connection_ok, new_orders, attempted, events>>
    /\ UNCHANGED <<local_company, aged, last_print_attempt, empty_cap, interval_arg>>
    /\ UNCHANGED ext
    /\ UNCHANGED aux

\* run(): the wait of current_interval one-second slices, left early on the
\* stop flag; the locals of the finished tick go out of scope
Sleep ==
    /\ pc = "sleep"
    /\ pc' = "loop"
    /\ new_orders' = <<>>
    /\ idx' = 0
    /\ attempted' = <<>>
    /\ last' = NoLast
    /\ events' = {}
    /\ connection_ok' = FALSE
    /\ UNCHANGED <<running, check_interval, auto_print_enabled, consecutive_empty_checks,
                   last_order_time, base_interval, current_interval>>
    /\ UNCHANGED <<store, hist>>
    /\ UNCHANGED ext
    /\ UNCHANGED aux

MonitorStep ==
    \/ LoopHead
    \/ Backoff
    \/ CheckConnection
    \/ SyncEssentialTables
    \/ QueryNewOrders
    \/ BatchHead
    \/ PrintReturn
    \/ Sleep

Next ==
    \/ start_monitoring
    \/ stop_monitoring
    \/ stop_monitoring_return
    \/ \E x \in IntervalArgs : set_check_interval(x)
    \/ \E b \in BOOLEAN : toggle_auto_print(b)
    \/ \E o \in Orders, v \in BOOLEAN, ok \in BOOLEAN, outcome \in PatchOutcomes :
          update_order_status(o, v, ok, outcome)
    \/ \E o \in Orders : CreateOrder(o)
    \/ \E o \in Orders : AgeOrder(o)
    \/ MonitorStep

Spec == Init /\ [][Next]_vars

\* the scheduler with one order in the store
SchedNext ==
    \/ start_monitoring
    \/ stop_monitoring
    \/ stop_monitoring_return
    \/ \E x \in IntervalArgs : set_check_interval(x)
    \/ \E b \in BOOLEAN : toggle_auto_print(b)
    \/ CreateOrder(1)
    \/ MonitorStep

SchedSpec == Init /\ [][SchedNext]_vars

\* the monitor with auto-print on and its stores, intervals left alone
StoreInit == InitWith(MaxQuiet) /\ auto_print_enabled

StoreNext ==
    \/ start_monitoring
    \/ stop_monitoring
    \/ stop_monitoring_return
    \/ \E o \in Orders : CreateOrder(o)
    \/ \E o \in Orders : AgeOrder(o)
    \/ MonitorStep

StoreSpec == StoreInit /\ [][StoreNext]_vars

\* the operator at the order table: the remote table holds MaxOrders
\* unprinted orders placed before the program started, which the first
\* refresh_orders() mirrors
ManualInit ==
    /\ InitProgram(MaxQuiet)
    /\ ~auto_print_enabled
    /\ remote_order = [o \in Orders |-> FALSE]
    /\ aged = {}
    /\ NoChildRows

ManualNext ==
    \/ \E o \in Orders, v \in BOOLEAN, ok \in BOOLEAN, outcome \in PatchOutcomes :
          update_order_status(o, v, ok, outcome)
    \/ \E o \in Orders, v \in BOOLEAN, ok \in BOOLEAN, outcome \in PatchOutcomes :
          update_is_printed_status(o, v, ok, outcome)
    \/ refresh_orders

ManualSpec == ManualInit /\ [][ManualNext]_vars

\* auto-print on, the remote table holds MaxOrders unprinted orders, and
\* orders are cancelled elsewhere while the monitor thread and the widget's
\* check_for_updates go through their batches
VanishInit ==
    /\ InitProgram(MaxQuiet)
    /\ auto_print_enabled
    /\ remote_order = [o \in Orders |-> FALSE]
    /\ aged = {}
    /\ NoChildRows

VanishNext ==
    \/ start_monitoring
    \/ \E o \in Orders : /\ Cardinality(DOMAIN remote_order) > MaxOrders - MaxCancelled
                         /\ RemoteDelete(o)
    \/ check_for_updates
    \/ CheckForUpdatesOrder
    \/ MonitorStep

VanishSpec == VanishInit /\ [][VanishNext]_vars

\* hybrid mode: the polling monitor and the realtime monitor run together
HybridInit == InitWith(MaxQuiet) /\ auto_print_enabled

HybridNext ==
    \/ start_monitoring
    \/ \E o \in Orders : CreateOrder(o)
    \/ \E o \in Orders : on_new_order(o)
    \/ \E o \in Orders : print_worker(o)
    \/ \E o \in Orders : print_worker_return(o)
    \/ MonitorStep

HybridSpec == HybridInit /\ [][HybridNext]_vars

\* the operator cancels orders: the remote tables hold MaxOrders orders with
\* any items and options, the widget refreshes its mirror and deletes
CancelInit ==
    /\ InitProgram(MaxQuiet)
    /\ ~auto_print_enabled
    /\ remote_order = [o \in Orders |-> FALSE]
    /\ aged = {}
    /\ remote_item \in SUBSET (Orders \X (1..MaxItems))
    /\ remote_option \in SUBSET {r \in Orders \X (1..MaxItems) \X (1..MaxOptions) :
                                    <<r[1], r[2]>> \in remote_item}
    /\ r_order = NoOrder

CancelNext ==
    \/ c_pc = "idle" /\ refresh_orders
    \/ \E o \in Orders : cancel_order(o)
    \/ CancelStep

CancelSpec == CancelInit /\ [][CancelNext]_vars

\* delete_order and the cached reads of one client, called one at a time;
\* the remote tables hold orders 1 and 2 with an item each and an option on
\* it, and delete_order is called with any order_id, absent ones included
DeleteInit ==
    /\ InitProgram(MaxQuiet)
    /\ ~auto_print_enabled
    /\ remote_order = [o \in {1, 2} |-> FALSE]
    /\ aged = {}
    /\ remote_item = {1, 2} \X {1}
    /\ remote_option = {1, 2} \X {1} \X {1}
    /\ r_order = NoOrder

DeleteNext ==
    \/ \E o \in Orders : delete_order(o)
    \/ GetOrderItems
    \/ DeleteOptionRows
    \/ DeleteItemRows
    \/ DeleteOrderRow
    \/ delete_order_return
    \/ \E kind \in {"orders_basic", "order_items", "order_options", "menu_items"} :
          CachedRead(kind)

DeleteSpec == DeleteInit /\ [][DeleteNext]_vars

(* ---------------------------- hardware sinks --------------------------- *)
\* print_receipt_com / print_kitchen_receipt_com up to the with statement, on
\* the text format_receipt_string returned
print_receipt_com ==
    /\ p_pc = "idle"
    /\ p_pc' = "com_open"
    /\ p_kind' = "com"
    /\ p_text' \in Texts
    /\ p_line' = 0
    /\ p_handle' = "none"
    /\ p_data' = <<>>
    /\ p_cause' = "none"
    /\ p_sent' = <<>>
    /\ p_log' = <<>>
    /\ p_last' = NoPLast
    /\ UNCHANGED nonsink

\* with serial.Serial(...) as ser: the port opens or SerialException is
\* raised; if not ser.is_open: return False
ComOpen ==
    /\ p_pc = "com_open"
    /\ \E outcome \in {"open", "not_open", "serial_error"} :
          CASE outcome = "open" ->
                 /\ p_handle' = "open"
                 /\ p_pc' = "com_write"
                 /\ UNCHANGED p_cause
            [] outcome = "not_open" ->
                 /\ p_cause' = "not_open"
                 /\ p_pc' = "com_exit"
                 /\ UNCHANGED p_handle
            [] outcome = "serial_error" ->
                 /\ p_cause' = "serial_error"
                 /\ p_pc' = "return"
                 /\ UNCHANGED p_handle
    /\ UNCHANGED <<p_kind, p_text, p_line, p_data, p_sent, p_log, p_last, nonsink>>

\* the encoding with its fallback, full_data, ser.write(full_data) and
\* ser.flush(); a failed write raises and sends nothing
ComWrite ==
    /\ p_pc = "com_write"
    /\ p_data' = ComFullData(p_text)
    /\ \E outcome \in {"ok", "serial_error", "other"} :
          /\ p_sent' = IF outcome = "ok" THEN ComFullData(p_text) ELSE p_sent
          /\ p_cause' = IF outcome = "ok" THEN "none" ELSE outcome
    /\ p_pc' = "com_exit"
    /\ UNCHANGED <<p_kind, p_text, p_line, p_handle, p_log, p_last, nonsink>>

\* the end of the with block, by return or by exception: Serial.__exit__
\* closes the port
ComExit ==
    /\ p_pc = "com_exit"
    /\ p_handle' = IF p_handle = "open" THEN "closed" ELSE p_handle
    /\ p_pc' = "return"
    /\ UNCHANGED <<p_kind, p_text, p_line, p_data, p_cause, p_sent, p_log, p_last, nonsink>>

\* print_receipt_esc_usb up to `printer = None`: the module is missing, the
\* formatting fails or the libusb backend cannot be made, and the function
\* returns False; or it goes on to open the device
print_receipt_esc_usb ==
    /\ p_pc = "idle"
    /\ \E outcome \in {"ok", "unavailable", "format_error", "no_backend"} :
          /\ p_pc' = IF outcome = "ok" THEN "usb_open" ELSE "return"
          /\ p_cause' = IF outcome = "ok" THEN "none" ELSE outcome
    /\ p_kind' = "usb"
    /\ p_text' \in Texts
    /\ p_line' = 0
    /\ p_handle' = "none"
    /\ p_data' = <<>>
    /\ p_sent' = <<>>
    /\ p_log' = <<>>
    /\ p_last' = NoPLast
    /\ UNCHANGED nonsink

\* printer = Usb(...): the device opens, or the constructor raises and
\* printer stays None
UsbOpen ==
    /\ p_pc = "usb_open"
    /\ \E outcome \in {"ok", "permission", "usb_error", "other"} :
          IF outcome = "ok"
          THEN /\ p_handle' = "open"
               /\ p_pc' = "usb_init"
               /\ UNCHANGED p_cause
          ELSE /\ p_cause' = outcome
               /\ p_pc' = "usb_finally"
               /\ UNCHANGED p_handle
    /\ UNCHANGED <<p_kind, p_text, p_line, p_data, p_sent, p_log, p_last, nonsink>>

\* printer._raw(data); all_sent_data.extend(data), or the device error
\* _raw raises before anything of data is sent
Raw(data, ok, next) ==
    IF ok
    THEN /\ p_sent' = p_sent \o data
         /\ p_data' = p_data \o data
         /\ p_pc' = next
         /\ UNCHANGED p_cause
    ELSE /\ p_cause' = "usb_error"
         /\ p_pc' = "usb_finally"
         /\ UNCHANGED <<p_sent, p_data>>

\* the initialisation and the code page command bytes([0x1b, 0x74, codepage])
\* with the default codepage 0x13
UsbInit ==
    /\ p_pc = "usb_init"
    /\ \E ok \in BOOLEAN : Raw(STYLE_COMMANDS.init \o <<27, 116, 19>>, ok, "usb_lines")
    /\ p_line' = 1
    /\ UNCHANGED <<p_kind, p_text, p_handle, p_log, p_last, nonsink>>

\* one pass of `for i, line in enumerate(lines)`: a blank line sends CR+LF;
\* any other line is encoded with errors='strict', which raises
\* UnicodeEncodeError for a character outside the code page
UsbLine ==
    /\ p_pc = "usb_lines"
    /\ p_line <= Len(p_text)
    /\ LET line == p_text[p_line] IN
          IF ~IsBlank(line) /\ ~Cp949Encodable(line)
          THEN /\ p_cause' = "encode"
               /\ p_pc' = "usb_finally"
               /\ UNCHANGED <<p_sent, p_data>>
          ELSE \E ok \in BOOLEAN : Raw(UsbLineData(line), ok, "usb_lines")
    /\ p_line' = p_line + 1
    /\ UNCHANGED <<p_kind, p_text, p_handle, p_log, p_last, nonsink>>

\* after the loop: two CR+LF and the cut
UsbTail ==
    /\ p_pc = "usb_lines"
    /\ p_line > Len(p_text)
    /\ \E ok \in BOOLEAN :
          Raw(STYLE_COMMANDS.crlf \o STYLE_COMMANDS.crlf \o STYLE_COMMANDS.cut, ok, "usb_backup")
    /\ UNCHANGED <<p_kind, p_text, p_line, p_handle, p_log, p_last, nonsink>>

\* save_printer_raw_data(bytes(all_sent_data), ...): the raw file is written,
\* or the save fails, returns False and is ignored; then return True
UsbBackup ==
    /\ p_pc = "usb_backup"
    /\ \E saved \in BOOLEAN : p_log' = IF saved THEN Append(p_log, p_data) ELSE p_log
    /\ p_pc' = "usb_finally"
    /\ UNCHANGED <<p_kind, p_text, p_line, p_handle, p_data, p_cause, p_sent, p_last, nonsink>>

\* finally: if printer: printer.close()
UsbFinally ==
    /\ p_pc = "usb_finally"
    /\ p_handle' = IF RunsFinally(p_cause) /\ p_handle = "open" THEN "closed" ELSE p_handle
    /\ p_pc' = "return"
    /\ UNCHANGED <<p_kind, p_text, p_line, p_data, p_cause, p_sent, p_log, p_last, nonsink>>

\* the return of a print call: True after the flush (serial) or the backup
\* (USB), False everywhere else
PrintCallReturn ==
    /\ p_pc = "return"
    /\ p_pc' = "idle"
    /\ p_last' = [kind |-> p_kind, result |-> IF p_cause = "none" THEN "ok" ELSE "fail",
                  text |-> p_text, sent |-> p_sent, log |-> p_log,
                  handle |-> p_handle, cause |-> p_cause]
    /\ UNCHANGED <<p_kind, p_text, p_line, p_handle, p_data, p_cause, p_sent, p_log, nonsink>>

SinkNext ==
    \/ print_receipt_com
    \/ ComOpen
    \/ ComWrite
    \/ ComExit
    \/ print_receipt_esc_usb
    \/ UsbOpen
    \/ UsbInit
    \/ UsbLine
    \/ UsbTail
    \/ UsbBackup
    \/ UsbFinally
    \/ PrintCallReturn

SinkInit == InitWith(MaxQuiet) /\ ~auto_print_enabled

\* print calls on the serial and the USB sink, one at a time
SinkSpec == SinkInit /\ [][SinkNext]_vars

(* --------------------------- print dispatcher -------------------------- *)
\* _execute_auto_print calls printer_manager.print_both_receipts, which
\* begins with the customer sink
print_both_receipts ==
    /\ pb.pc = "idle"
    /\ p_pc = "idle"
    /\ pb' = [NoCall EXCEPT !.pc = "customer"]
    /\ p_last' = NoPLast
    /\ UNCHANGED <<p_pc, p_kind, p_text, p_line, p_handle, p_data, p_cause, p_sent, p_log>>
    /\ UNCHANGED <<monitor, children, cancel, qcache, r_order, r_lines, r_path, client>>

\* the print call of the sink whose turn it is, from its entry to its return
SinkCall ==
    /\ pb.pc \in {"customer", "kitchen"}
    /\ p_last = NoPLast
    /\ SinkNext

AttemptsNext_afterSuccess(ok) == ok

\* the next sink is attempted whatever the attempt before it gave
AttemptsNext(ok) == TRUE

\* the attempt on a sink is over: its print call returned True or False, or
\* the attempt raised without a print call being made and the dispatcher
\* caught it; the sink's flag is stored and the next sink gets its turn
SinkAttemptEnds ==
    /\ pb.pc \in {"customer", "kitchen"}
    /\ p_pc = "idle"
    /\ LET call == IF p_last = NoPLast
                   THEN [kind |-> "none", result |-> "none", cause |-> "raised"]
                   ELSE [kind |-> p_last.kind, result |-> p_last.result,
                         cause |-> p_last.cause]
           ok == call.result = "ok" IN
       pb' = [pb EXCEPT !.calls = With(@, pb.pc, call),
                        !.results = With(@, pb.pc, ok),
                        !.pc = IF pb.pc = "customer" /\ AttemptsNext(ok) THEN "kitchen"
                               ELSE "results"]
    \* the locals of the print call are gone
    /\ p_last' = NoPLast
    /\ p_kind' = "none"
    /\ p_text' = <<>>
    /\ p_line' = 0
    /\ p_handle' = "none"
    /\ p_data' = <<>>
    /\ p_cause' = "none"
    /\ p_sent' = <<>>
    /\ p_log' = <<>>
    /\ UNCHANGED p_pc
    /\ UNCHANGED <<monitor, children, cancel, qcache, r_order, r_lines, r_path, client>>

\* _execute_auto_print after print_both_receipts returned:
\* results.get("customer", False), results.get("kitchen", False) and the
\* overall success
execute_auto_print_return ==
    /\ pb.pc = "results"
    /\ LET Get(sink_name) == IF sink_name \in DOMAIN pb.results THEN pb.results[sink_name]
                             ELSE FALSE IN
       pb' = [pb EXCEPT !.pc = "idle",
                        !.success = OverallSuccess(Get("customer"), Get("kitchen"))]
    /\ UNCHANGED <<sink, monitor, children, cancel, qcache, r_order, r_lines, r_path, client>>

BothNext ==
    \/ print_both_receipts
    \/ SinkCall
    \/ SinkAttemptEnds
    \/ execute_auto_print_return

\* orders are printed to both sinks, one print_both_receipts call at a time
BothSpec == SinkInit /\ [][BothNext]_vars

(* ---------------------------- realtime client ------------------------- *)
\* SupabaseRealtimeClient.connect: a new WebSocketApp becomes self.ws and its
\* thread is started; states of a WebSocketApp: "connecting", "open",
\* "error" (on_error ran), "closing" (close() was called), "sleep" (_on_close
\* waits out reconnect_interval), "closed" (_on_close returned)
Connect(c) ==
    [c EXCEPT !.ws = Len(c.conns) + 1,
              !.conns = Append(@, "connecting"),
              !.senders = Append(@, [pc |-> "none", on |-> 0])]

\* RealtimeOrderMonitor.start_monitoring
realtime_start_monitoring ==
    /\ ~client.is_monitoring
    /\ Len(client.conns) < MaxConnections
    /\ client' = [Connect(client) EXCEPT !.is_monitoring = TRUE]
    /\ UNCHANGED nonclient

\* RealtimeOrderMonitor.stop_monitoring: disconnect() clears should_reconnect
\* and closes the WebSocketApp that self.ws names
realtime_stop_monitoring ==
    /\ client.is_monitoring
    /\ client' = [client EXCEPT
                    !.should_reconnect = FALSE,
                    !.is_monitoring = FALSE,
                    !.conns = [n \in DOMAIN @ |->
                                 IF n = client.ws /\ @[n] \in {"connecting", "open"}
                                 THEN "closing" ELSE @[n]]]
    /\ UNCHANGED nonclient

\* _on_open: is_connected = True and _start_heartbeat starts a sender thread
on_open(n) ==
    /\ client.conns[n] = "connecting"
    /\ client' = [client EXCEPT !.conns[n] = "open",
                                !.is_connected = TRUE,
                                !.senders[n] = [pc |-> "started", on |-> 0]]
    /\ UNCHANGED nonclient

\* _on_error: the connection failed or broke
on_error(n) ==
    /\ client.conns[n] \in {"connecting", "open"}
    /\ client' = [client EXCEPT !.conns[n] = "error", !.is_connected = FALSE]
    /\ UNCHANGED nonclient

\* _on_close up to the sleep: is_connected = False; if self.should_reconnect:
\* time.sleep(self.reconnect_interval)
on_close(n) ==
    /\ client.conns[n] \in {"open", "error", "closing"}
    /\ client' = [client EXCEPT !.is_connected = FALSE,
                                !.conns[n] = IF client.should_reconnect THEN "sleep"
                                             ELSE "closed"]
    /\ UNCHANGED nonclient

\* _on_close after the sleep: self.connect(), with no second test of
\* should_reconnect
reconnect(n) ==
    /\ client.conns[n] = "sleep"
    /\ Len(client.conns) < MaxConnections
    /\ client' = Connect([client EXCEPT !.conns[n] = "closed"])
    /\ UNCHANGED nonclient

\* send_heartbeat, one pass of its loop by the thread started for n: the test
\* of is_connected and should_reconnect, the send on self.ws (which raises on
\* a closed socket and ends the thread), time.sleep(30)
send_heartbeat(n) ==
    /\ client.senders[n].pc \in {"started", "sleep"}
    /\ IF client.is_connected /\ client.should_reconnect
       THEN \E sent \in BOOLEAN :
               /\ sent => client.conns[client.ws] = "open"
               /\ client' = [client EXCEPT !.senders[n] =
                               IF sent THEN [pc |-> "sleep", on |-> client.ws]
                               ELSE [pc |-> "ended", on |-> 0]]
       ELSE client' = [client EXCEPT !.senders[n] = [pc |-> "ended", on |-> 0]]
    /\ UNCHANGED nonclient

ClientNext ==
    \/ realtime_start_monitoring
    \/ realtime_stop_monitoring
    \/ \E n \in 1..MaxConnections :
          /\ n \in DOMAIN client.conns
          /\ \/ on_open(n)
             \/ on_error(n)
             \/ on_close(n)
             \/ reconnect(n)
             \/ send_heartbeat(n)

\* one realtime client with its websocket threads and heartbeat threads
ClientSpec == SinkInit /\ [][ClientNext]_vars

(* --------------------------- receipt template -------------------------- *)
\* format_receipt_string(order): the rendering of one order dictionary
format_receipt_string ==
    /\ r_order.given
    /\ r_lines = <<>>
    /\ r_lines' = ReceiptLines(r_order)
    /\ UNCHANGED <<r_order, sink, monitor, children, cancel, qcache, extra>>

ReceiptInit ==
    /\ InitProgram(MaxQuiet)
    /\ ~auto_print_enabled
    /\ remote_order = <<>>
    /\ aged = {}
    /\ remote_item = {}
    /\ remote_option = {}
    /\ r_order \in OrderInputs

\* the template applied to each of the order dictionaries
ReceiptSpec == ReceiptInit /\ [][format_receipt_string]_vars

\* formatted_order as each print path builds it from the order detail: the
\* polling monitor copies total_price with order_data.get("total_price", 0);
\* the realtime monitor, the widget's auto-print and the manual print
\* (get_selected_order_data) build the dictionary without that key
FormattedOrder(path, order_data) ==
    [total_price |-> IF path = "monitor"
                     THEN (IF order_data.total_price = NoPrice THEN <<0>>
                           ELSE order_data.total_price)
                     ELSE NoPrice,
     items |-> order_data.items,
     given |-> TRUE]

\* a print path builds formatted_order from the detail of an order and the
\* sink's print function renders it with format_receipt_string
print_path(path) ==
    /\ r_order.given
    /\ r_path = "none"
    /\ r_path' = path
    /\ r_lines' = ReceiptLines(FormattedOrder(path, r_order))
    /\ UNCHANGED <<r_order, pb, client, sink, monitor, children, cancel, qcache>>

\* each print path applied to each of the order details
PathSpec ==
    ReceiptInit
      /\ [][\E path \in {"monitor", "realtime", "widget_auto", "manual"} :
               print_path(path)]_vars

\* MaxThreads threads call get, set and clear of one QueryCache while time passes
CacheInit == InitWith(MaxQuiet) /\ ~auto_print_enabled

CacheNext ==
    \/ ClockTick
    \/ \E t \in Threads, k \in CacheKeys, ttl \in {NoTtl} \cup (0..MaxClock) :
          get_call(t, k, ttl)
    \/ \E t \in Threads, k \in CacheKeys, v \in Values : set_call(t, k, v)
    \/ \E t \in Threads,
          pattern \in {NoPattern, <<>>, <<1>>, <<2>>, <<1, 2>>, <<2, 1>>} :
          clear_call(t, pattern)
    \/ \E t \in Threads : CacheStep(t)

CacheSpec == CacheInit /\ [][CacheNext]_vars

\* the same with the monitor thread getting its turn, as the scheduler of the
\* operating system gives every runnable thread
StopSpec == StoreInit /\ [][StoreNext]_vars /\ WF_vars(MonitorStep)

\* a remote table with up to MaxRows orders placed before the program
\* started: the oldest a of them older than one hour, the newest p printed
QueryInit ==
    /\ InitProgram(MaxQuiet)
    /\ auto_print_enabled
    /\ NoChildRows
    /\ \E n \in 0..MaxRows : \E a \in 0..n : \E p \in 0..n :
          /\ remote_order = [o \in 1..n |-> o > n - p]
          /\ aged = 1..a

\* the monitor on that table while the printer is not ready
QueryNext ==
    \/ start_monitoring
    \/ stop_monitoring
    \/ stop_monitoring_return
    \/ LoopHead
    \/ Backoff
    \/ CheckConnection
    \/ SyncEssentialTables
    \/ QueryNewOrders
    \/ BatchIteration({"status_bad"})
    \/ Sleep

QuerySpec == QueryInit /\ [][QueryNext]_vars

\* the monitor keeps running (no stop request) and gets its turn
FairNext ==
    \/ start_monitoring
    \/ \E o \in Orders : CreateOrder(o)
    \/ \E o \in Orders : AgeOrder(o)
    \/ MonitorStep

FairSpec == StoreInit /\ [][FairNext]_vars /\ WF_vars(MonitorStep)

(* ============================== claims ================================ *)
\* positions of the monitor thread at which current_interval holds the
\* interval of the running tick
TickPcs == {"check", "sync", "sync_company", "query", "batch", "printing", "sleep"}

ConnLost == <<"connection_status_changed", FALSE>>

\* C1: for unchanged settings the interval computed by
\* _calculate_dynamic_interval does not decrease from one computation to the
\* next while the ticks stay empty, a tick that finds orders resets the
\* counter, and the computation that follows such a tick yields the base
\* interval.
C1_MonotoneDamping ==
    [][/\ (pc = "loop" /\ pc' = "check")
          => /\ (consecutive_empty_checks > 0 /\ base_interval' = base_interval)
                   => current_interval' >= current_interval
             /\ consecutive_empty_checks = 0 => current_interval' = base_interval'
       /\ (pc = "query" /\ <<"new_orders_found">> \in events')
          => consecutive_empty_checks' = 0]_vars

\* C2: whatever was passed to set_check_interval, the interval the loop
\* computed for the running tick and waits on is at least the 3-second floor.
C2_IntervalAtLeastFloor ==
    pc \in TickPcs => current_interval >= MinCheckInterval

\* C2 witness: set_check_interval got an argument below the floor and the
\* loop, with auto-print off, computed a tick's interval from check_interval
C2_Witness ==
    /\ \E x \in interval_arg : x < MinCheckInterval
    /\ pc = "sleep"
    /\ ~auto_print_enabled
    /\ base_interval = check_interval
    /\ current_interval >= MinCheckInterval

\* C3: the effective interval of a tick is never smaller than the floor
\* selected for that tick (fast_check_interval with auto-print, check_interval
\* otherwise).
C3_NeverBelowBase ==
    pc \in TickPcs => current_interval >= base_interval

\* C4: a tick whose connectivity probe fails emits
\* connection_status_changed(false), goes straight to the wait, does no sync,
\* no query, no print and no write-back, and leaves
\* consecutive_empty_checks and last_order_time as they were.
C4_ProbeFailureSkipsTick ==
    /\ [](pc = "sleep" /\ ConnLost \in events
            => events = {ConnLost} /\ last = NoLast /\ new_orders = <<>>)
    /\ [][(pc = "check" /\ pc' # "check" /\ ~connection_ok')
            => /\ pc' = "sleep"
               /\ events' = {ConnLost}
               /\ UNCHANGED <<consecutive_empty_checks, last_order_time>>
               /\ UNCHANGED <<new_orders, idx, attempted, last>>
               /\ UNCHANGED <<remote_order, local_order, local_company, delivered>>]_vars

\* C4 witness: the wait after a failed probe, reached with counters that
\* earlier ticks had set
C4_Witness ==
    /\ pc = "sleep"
    /\ events = {ConnLost}
    /\ consecutive_empty_checks > 0
    /\ last_order_time # 0

\* C5: an auto-printed order is treated as delivered (auto_print_completed
\* emitted, printed=true written back) exactly when the customer sink
\* reported success, whatever the kitchen sink reported.
C5_DeliveredIffCustomer ==
    last.outcome \in {"printed", "print_failed"}
        => /\ (last.outcome = "printed") <=> last.customer
           /\ (last.signal = "auto_print_completed") <=> last.customer

C7_NoReprint ==
    [][(pc = "batch" /\ pc' = "printing") => new_orders[idx] \notin delivered]_vars

\* C8: the status update writes locally first; no remote patch after a failed
\* local write; a failed remote patch leaves the new local value, is logged
\* and does not stop the iteration.
C8_LocalFirstRemoteBestEffort ==
    [][(pc = "printing" /\ last'.outcome = "printed")
          => /\ ~last'.local_ok => (last'.patch = "none" /\ UNCHANGED remote_order)
             /\ last'.patch \in {"exception", "rejected"}
                  => /\ local_order'[last'.order]
                     /\ last'.logged
                     /\ pc' = "batch"]_vars

\* the tick synced, then its query raised
QueryRaised == pc = "sleep" /\ <<"sync">> \in events /\ <<"query">> \notin events

\* the most recent status update had its remote patch fail
PatchFailed == last.patch \in {"exception", "rejected"}

\* C9: when the remote patch failed after the local write, and the store is
\* reachable again (ticks keep passing the connectivity probe, and from some
\* point on no patch fails and the local query works), the remote row
\* eventually carries is_printed = true.
C9_RemoteEventuallyPatched ==
    (([]<>(pc = "sync")) /\ <>[](~QueryRaised /\ ~PatchFailed))
        => \A o \in Orders :
              (last.order = o /\ last.outcome = "printed" /\ last.local_ok /\ PatchFailed)
              ~> (o \in DOMAIN remote_order /\ remote_order[o])

\* C10: the iterations of a batch are entered in the order of the query
\* result, a failed iteration goes on with the next one, and without a stop
\* request the loop is only left after every order of the batch was attempted.
C10_BatchGoesOn ==
    /\ [](pc \in {"batch", "printing"}
            => /\ Len(attempted) = (IF pc = "printing" THEN idx ELSE idx - 1)
               /\ Len(attempted) <= Len(new_orders)
               /\ attempted = SubSeq(new_orders, 1, Len(attempted)))
    /\ [][(pc \in {"batch", "printing"} /\ pc' = "sleep" /\ running)
            => (pc = "batch" /\ attempted = new_orders)]_vars

\* C10 witness: an iteration has just failed with a signal and the loop stands
\* at its head with a later order of the batch still to come
C10_Witness ==
    /\ pc = "batch"
    /\ running
    /\ last.signal = "auto_print_failed"
    /\ idx >= 2 /\ idx <= Len(new_orders)
    /\ attempted = SubSeq(new_orders, 1, idx - 1)

\* outcomes of a batch iteration in which the order's print did not succeed
NotPrinted == {"status_bad", "print_failed", "exception"}

\* C11: every order of a batch whose print does not succeed, the order
\* skipped on the printer readiness check included, gets auto_print_failed
\* and no auto_print_completed, and its local is_printed is left as it was.
C11_FailedPrintReported ==
    /\ [](last.outcome \in NotPrinted => last.signal = "auto_print_failed")
    /\ [][(pc \in {"batch", "printing"} /\ idx' = idx + 1 /\ last'.outcome \in NotPrinted)
            => UNCHANGED local_order]_vars

\* C13: the list a tick's query hands to the print step has at most 20
\* orders, each unprinted in the local mirror and created within the last
\* hour when the query ran, and the print step starts no more than 20
\* iterations in a tick.
C13_BatchBounded ==
    /\ [][(pc = "query" /\ pc' = "batch")
            => /\ Len(new_orders') <= BatchLimit
               /\ \A i \in 1..Len(new_orders') :
                     /\ new_orders'[i] \in DOMAIN local_order
                     /\ ~local_order[new_orders'[i]]
                     /\ new_orders'[i] \notin aged]_vars
    /\ [](Len(attempted) <= BatchLimit)

\* C13 witness: the local mirror holds more than 20 unprinted orders of the
\* last hour besides printed and older ones, and the print step has gone
\* through a batch of exactly 20
C13_Witness ==
    /\ pc = "batch"
    /\ Len(new_orders) = BatchLimit
    /\ Len(attempted) = BatchLimit
    /\ Cardinality({o \in DOMAIN local_order : ~local_order[o] /\ o \notin aged}) > BatchLimit
    /\ \E o \in DOMAIN local_order : local_order[o]
    /\ aged # {}

\* stop_monitoring() has returned and the monitor was not started again
Stopped == ui_pc = "ready" /\ ~running

\* C14: once stop_monitoring() has returned the monitor thread has left its
\* loop, and until it is started again it does no sync, query, print,
\* write-back or emission.
C14_StopJoins ==
    /\ [](Stopped => pc \in {"idle", "done"})
    /\ [][(Stopped /\ Stopped')
            => UNCHANGED <<pc, tick, local_order, local_company, delivered>>]_vars

\* C14 witness: stop_monitoring() has returned after the thread had printed
C14_Witness ==
    /\ Stopped
    /\ pc = "done"
    /\ delivered # {}

\* C15: after a stop request the loop exits; meanwhile the print in flight
\* returns, no further order of the batch is started and no new tick
\* begins, also from the wait between ticks and from the error back-off.
C15_StopExits ==
    /\ (~running /\ pc # "idle") ~> (pc = "done")
    /\ [][(~running /\ pc = "printing") => pc' \in {"printing", "batch"}]_vars
    /\ [][(~running /\ pc = "batch") => pc' \in {"batch", "sleep"}]_vars
    /\ [][(~running /\ pc \in {"sleep", "backoff"}) => pc' \in {pc, "loop"}]_vars
    /\ [][(~running /\ ~running' /\ pc = "loop") => pc' \in {"loop", "done"}]_vars

\* C15 witness: the stop request has been made while a print was in flight
\* and a later order of the batch was still to come
C15_Witness ==
    /\ ~running
    /\ ui_pc = "waiting"
    /\ pc = "printing"
    /\ idx < Len(new_orders)

\* C17: in a tick, the sync of "order" failing does not keep the sync of
\* "company" from being attempted nor touch its rows, and the other way
\* round; a failed sync leaves its own table as it was; the query comes
\* next whatever the syncs did.
C17_SyncIndependent ==
    [][/\ (pc = "sync" /\ pc' # "sync")
            => /\ pc' = "sync_company"
               /\ UNCHANGED local_company
               /\ <<"sync_failed_order">> \in events' => UNCHANGED local_order
       /\ (pc = "sync_company" /\ pc' # "sync_company")
            => /\ pc' = "query"
               /\ UNCHANGED local_order
               /\ <<"sync_failed_company">> \in events' => UNCHANGED local_company]_vars

\* C17 witness: the tick stands at the query after the sync of "order"
\* failed, leaving the mirror behind the remote table, and that of
\* "company" succeeded
C17_Witness ==
    /\ pc = "query"
    /\ <<"sync_failed_order">> \in events
    /\ <<"sync_failed_company">> \notin events
    /\ local_company
    /\ local_order # remote_order

JustSetPrinted(op, o) ==
    /\ ui_last.op = op
    /\ ui_last.order = o
    /\ ui_last.value
    /\ ui_last.local_ok
    /\ RowAfter(local_order, last_print_attempt, o) = ui_last.after

C20_OverrideAgrees ==
    [][\A o \in Orders, v \in BOOLEAN :
          update_order_status(o, v, TRUE, "ok")
            => /\ local_order'[o] = v
               /\ o \in DOMAIN remote_order' => remote_order'[o] = v]_vars

\* C12: an order whose detail is absent when it is joined is skipped silently
\* by the polling monitor's batch, by the realtime print worker and by the
\* widget's check_for_updates batch: no print, no status change, no failure
\* surfaced, and the batch goes on with the remaining orders
C12_VanishedSkipped ==
    /\ [][(pc = "batch" /\ idx' = idx + 1 /\ last'.outcome = "no_detail")
            => /\ last'.signal = "none"
               /\ pc' = "batch"
               /\ UNCHANGED <<local_order, remote_order, delivered>>]_vars
    /\ [][\A o \in Orders :
            (rt_worker[o] = "start" /\ ~JoinOrderDetail(o) /\ rt_worker'[o] # "start")
              => /\ rt_worker'[o] = "finished"
                 /\ UNCHANGED <<local_order, remote_order, delivered>>]_vars
    /\ [][(w_pc = "batch" /\ w_idx <= Len(w_orders) /\ ~JoinOrderDetail(w_orders[w_idx])
             /\ widget' # widget)
            => /\ ~w_last'.error
               /\ w_pc' = "batch"
               /\ w_idx' = w_idx + 1
               /\ UNCHANGED <<local_order, remote_order, delivered>>]_vars

\* C16: at no time are two print attempts in progress on the same sinks
C16_OnePrintAtATime == PrintAttempts <= 1

\* the order has no row left in the tables given
NoRowOf(o, orders, items, options) ==
    /\ o \notin DOMAIN orders
    /\ ItemsOf(o, items) = {}
    /\ OptionsOf(o, options) = {}

\* C21: the remote deletions of a cancelled order come in dependency order
\* (item rows go only when no option row of the order is left, the order row
\* only when no item row is left), and after a cancellation reported as
\* success no row of the order remains and its detail joins as absent
C21_CascadeInOrder ==
    /\ [][\A o \in Orders :
            /\ ItemsOf(o, remote_item') # ItemsOf(o, remote_item)
                 => OptionsOf(o, remote_option) = {}
            /\ (o \in DOMAIN remote_order /\ o \notin DOMAIN remote_order')
                 => ItemsOf(o, remote_item) = {}]_vars
    /\ [](c_last.reported = "success"
            => /\ NoRowOf(c_last.order, remote_order, remote_item, remote_option)
               /\ NoRowOf(c_last.order, local_order, local_item, local_option)
               /\ ~JoinOrderDetail(c_last.order))

\* C22: a cancellation is reported as success only if none of its deletions
\* (option rows, item rows, order row, local rows) failed
C22_SuccessOnlyIfAllDeleted ==
    c_last.reported = "success" => c_last.failed = {}

\* C23: when a pass of cancel_order ends, a remotely deleted order has no
\* local row left, and an order whose remote deletion failed keeps its local rows
C23_StoresAgreeAfterCancel ==
    [][(c_pc = "local" /\ c_pc' = "idle")
         => /\ c_order \notin DOMAIN remote_order'
                 => NoRowOf(c_order, local_order', local_item', local_option')
            /\ c_order \in DOMAIN remote_order'
                 => UNCHANGED <<local_order, local_item, local_option>>]_vars

\* C24: a get with a non-negative ttl returns absent for an entry whose age
\* (read time minus write time) exceeds that ttl, and the value set last for
\* an entry within its ttl; the passing of time alone removes nothing
C24_ExpiryAtRead ==
    /\ [][\A t \in Threads :
            (qc_th[t].pc = "get_ttl" /\ qc_th'[t].pc # "get_ttl" /\ qc_th[t].ttl >= 0)
              => LET k == qc_th[t].key IN
                 IF qc_now - qc_times[k] > qc_th[t].ttl
                 THEN qc_th'[t].pc = "get_del"
                 ELSE qc_last'.thread = t /\ qc_last'.ret = qc_model[k]]_vars
    /\ [][\A t \in Threads :
            (qc_th[t].pc \in {"get_del", "get_del_time"} /\ qc_th'[t].pc = "idle")
              => qc_last'.ret = NoValue]_vars
    /\ [][qc_now' # qc_now => UNCHANGED <<qc_cache, qc_times>>]_vars

\* pattern occurs in k: k = a \o pattern \o b for some a and b
IsSubstring(pattern, k) ==
    \E i \in 1..(Len(k) + 1) : \E j \in (i - 1)..Len(k) : SubSeq(k, i, j) = pattern

\* C25: clear(pattern) removes exactly the entries whose key contains the
\* pattern as a substring, with their timestamps, and leaves the other
\* entries and timestamps as they were; clear() removes all entries
C25_ClearExact ==
    [][\A t \in Threads :
          (qc_th[t].pc \in {"clear_times", "clear_loop"} /\ qc_th'[t].pc = "idle")
            => LET before == qc_th[t].before
                   pattern == qc_th[t].pattern
                   kept == IF pattern = NoPattern THEN {}
                           ELSE {k \in DOMAIN before[1] : ~IsSubstring(pattern, k)} IN
               /\ qc_cache' = [k \in kept |-> before[1][k]]
               /\ qc_times' = [k \in kept |-> before[2][k]]]_vars

\* a clear("2") is about to return, having removed the entry "12" and kept "1"
C25_Witness ==
    \E t \in Threads :
       /\ qc_th[t].pc = "clear_loop"
       /\ qc_th[t].todo = <<>>
       /\ qc_th[t].pattern = <<2>>
       /\ DOMAIN qc_th[t].before[1] = CacheKeys
       /\ DOMAIN qc_cache = {<<1>>}
       /\ DOMAIN qc_times = {<<1>>}

\* C26: whenever no thread is inside the cache, the value map and the
\* timestamp map hold the same keys, and every get returns absent or the
\* value a finished set stored under the key and no clear or expiry removed since
C26_ThreadSafe ==
    /\ [](qc_lock = 0 => DOMAIN qc_cache = DOMAIN qc_times)
    /\ [][\A t \in Threads :
            (qc_th[t].pc \in {"get_ttl", "get_del", "get_del_time"} /\ qc_th'[t].pc = "idle")
              => \/ qc_last'.ret = NoValue
                 \/ /\ qc_th[t].key \in DOMAIN qc_model
                    /\ qc_last'.ret = qc_model[qc_th[t].key]]_vars

\* a thread is between the two writes of set while the last call that
\* returned is another thread's get with a value
C26_Witness ==
    \E t \in Threads :
       /\ qc_th[t].pc = "set_time"
       /\ DOMAIN qc_cache # DOMAIN qc_times
       /\ qc_last.op = "get"
       /\ qc_last.thread # t
       /\ qc_last.ret \in Values

\* C27: the one total line of a rendered receipt, read back as a number,
\* is the order's total_price when that is recorded and > 0, whatever the
\* items sum to, and the sum of quantity x unit price otherwise
C27_TotalLine ==
    LET RECURSIVE ParseDigits(_)
        ParseDigits(cs) ==
            IF cs = <<>> THEN 0
            ELSE LET c == cs[Len(cs)]
                     rest == SubSeq(cs, 1, Len(cs) - 1)
                 IN IF c = "," THEN ParseDigits(rest)
                    ELSE 10 * ParseDigits(rest) + (CHOOSE d \in 0..9 : Digit(d) = c)
        ParseAmount(cs) ==
            IF cs # <<>> /\ Head(cs) = "-" THEN 0 - ParseDigits(Tail(cs)) ELSE ParseDigits(cs)
        RECURSIVE SumOfSubtotals(_)
        SumOfSubtotals(items) ==
            IF items = <<>> THEN 0
            ELSE Head(items).quantity * Head(items).price + SumOfSubtotals(Tail(items))
        TotalLines == {i \in 1..Len(r_lines) : r_lines[i] # <<>> /\ r_lines[i][1] = "total: "}
    IN r_lines # <<>> =>
        /\ Cardinality(TotalLines) = 1
        /\ \A i \in TotalLines :
              LET line == r_lines[i]
                  shown == ParseAmount(SubSeq(line, 2, Len(line) - 1))
              IN /\ line[Len(line)] = "won"
                 /\ IF r_order.total_price # NoPrice /\ r_order.total_price[1] > 0
                    THEN shown = r_order.total_price[1]
                    ELSE shown = SumOfSubtotals(r_order.items)

\* a receipt rendered for an order whose recorded total differs from the sum
\* of its line subtotals, with an amount that needs a thousands separator
C27_Witness ==
    /\ r_lines # <<>>
    /\ r_order.total_price = <<1234567>>
    /\ Len(r_order.items) = 2
    /\ \A i \in 1..2 : r_order.items[i].quantity * r_order.items[i].price = 999

\* C28: a print call on a hardware sink never returns False because of the
\* encoding alone, and a call that returns True for a text with a character
\* outside the Korean code page has sent that text in UTF-8
C28_EncodingFallback ==
    /\ p_last.cause # "encode"
    /\ (/\ p_last.result = "ok"
        /\ \E i \in 1..Len(p_last.text) : ~Cp949Encodable(p_last.text[i]))
         => \E a, b \in 0..Len(p_last.sent) :
               /\ a + 1 <= b
               /\ SubSeq(p_last.sent, a + 1, b) = Encode(Join(p_last.text), "utf-8")

\* C29: a print call on a hardware sink that has sent bytes has written
\* one raw file, and its bytes are the bytes sent, in order
C29_RawLogEqualsSent ==
    (p_last.kind \in {"com", "usb"} /\ p_last.sent # <<>>) => p_last.log = <<p_last.sent>>

\* C30: between print calls no sink handle is open: a handle opened by a
\* call is closed when the call returns, whatever the call met
C30_HandleClosed ==
    /\ p_pc = "idle" => p_handle # "open"
    /\ p_last.kind # "none" => p_last.handle \in {"none", "closed"}

\* a USB call that opened the device, met a character outside the code page
\* and returned False with the device closed
C30_Witness ==
    /\ p_pc = "idle"
    /\ p_last.kind = "usb"
    /\ p_last.cause = "encode"
    /\ p_last.sent # <<>>
    /\ p_handle = "closed"

\* C38: the result of get depends on the write time of the entry, the time of
\* the read and the ttl of this call only: a get removes an entry from the
\* map (so that every later get of the key returns absent) only when the
\* entry is past every ttl that a later call may pass
C38_GetIndependentOfEarlierGets ==
    [][\A t \in Threads :
         (/\ qc_th[t].pc = "get_del"
          /\ qc_th[t].key \in DOMAIN qc_cache
          /\ qc_th[t].key \notin DOMAIN qc_cache')
           => \A ttl \in 1..MaxClock : qc_now - qc_times[qc_th[t].key] > ttl]_vars

\* C36: the remote cascade deletes no item row that an option row still
\* refers to, and once a step of the cascade has failed (the lookup of the
\* item ids got no answer, or a DELETE failed) no later step deletes rows
C36_NoItemBeforeItsOptions ==
    /\ [][\A r \in remote_item \ remote_item' :
            \A q \in remote_option : <<q[1], q[2]>> # r]_vars
    /\ [][(c_pc \in {"del_items", "del_order"} /\ (c_ids = <<>> \/ c_last.failed # {}))
            => UNCHANGED <<remote_item, remote_order>>]_vars

\* C35: when a tick of the polling monitor ends and auto_print_completed was
\* emitted for the order of its last iteration, that order is printed=true in
\* the local mirror
C35_CompletedImpliesPrintedLocally ==
    [][(pc = "batch" /\ pc' = "sleep" /\ last.signal = "auto_print_completed")
         => /\ last.order \in DOMAIN local_order'
            /\ local_order'[last.order]]_vars

\* C34: in hybrid mode no order is inside a print call of the polling monitor
\* and inside a print call of a realtime print worker at once: of the two
\* monitors at most one sends a given unprinted order to the sinks
C34_PrintedByOneMonitor ==
    \A o \in Orders :
       ~(/\ rt_worker[o] = "printing"
         /\ pc = "printing"
         /\ new_orders[idx] = o)

\* C32: the bytes a USB print call sent start with the reset command; those
\* of a call that returned True end with the cut command, which occurs
\* nowhere else, and in them the centre and double-size commands occur only
\* in front of a line with the order-number label, which is followed by its
\* line end, the normal-size and the left-alignment command, so that every
\* text byte sent in double size belongs to such a line
C32_UsbStreamFramed ==
    LET sent == p_last.sent
        INIT == -1  CODEPAGE == -2  CENTER == -3  LEFT == -4
        TEXT2X == -5  NORMAL == -6  CUT == -7  CRLF == -8
        At(s, c) == Len(s) >= Len(c) /\ SubSeq(s, 1, Len(c)) = c
        Rest(s, n) == SubSeq(s, n + 1, Len(s))
        \* the stream as commands (negative) and text bytes (positive)
        RECURSIVE Tokens(_)
        Tokens(s) ==
            IF s = <<>> THEN <<>>
            ELSE IF At(s, <<27, 64>>) THEN <<INIT>> \o Tokens(Rest(s, 2))
            ELSE IF At(s, <<27, 116>>) /\ Len(s) >= 3 THEN <<CODEPAGE>> \o Tokens(Rest(s, 3))
            ELSE IF At(s, <<27, 97, 1>>) THEN <<CENTER>> \o Tokens(Rest(s, 3))
            ELSE IF At(s, <<27, 97, 0>>) THEN <<LEFT>> \o Tokens(Rest(s, 3))
            ELSE IF At(s, <<29, 33, 17>>) THEN <<TEXT2X>> \o Tokens(Rest(s, 3))
            ELSE IF At(s, <<29, 33, 0>>) THEN <<NORMAL>> \o Tokens(Rest(s, 3))
            ELSE IF At(s, <<29, 86, 65, 0>>) THEN <<CUT>> \o Tokens(Rest(s, 4))
            ELSE IF At(s, <<13, 10>>) THEN <<CRLF>> \o Tokens(Rest(s, 2))
            ELSE <<Head(s)>> \o Tokens(Tail(s))
        T == Tokens(sent)
        \* the line end that follows position i
        LineEnd(i) == CHOOSE j \in i..Len(T) :
                         /\ T[j] = CRLF
                         /\ \A k \in i..(j - 1) : T[k] # CRLF
        HasLineEnd(i) == \E j \in i..Len(T) : T[j] = CRLF
        \* the two bytes of the order-number label in the Korean code page
        LabelIn(i, j) == \E k \in i..(j - 1) : T[k] = 193 /\ T[k + 1] = 214
    IN  p_last.kind = "usb" =>
          /\ sent # <<>> => T[1] = INIT
          /\ p_last.result = "ok" =>
                /\ T # <<>>
                /\ T[Len(T)] = CUT
                /\ \A i \in 1..(Len(T) - 1) : T[i] # CUT
          /\ p_last.result = "ok" => \A i \in 1..Len(T) :
                /\ T[i] = CENTER => i < Len(T) /\ T[i + 1] = TEXT2X
                /\ T[i] = TEXT2X =>
                      /\ i > 1 /\ T[i - 1] = CENTER
                      /\ HasLineEnd(i)
                      /\ LET j == LineEnd(i) IN
                         /\ \A k \in (i + 1)..(j - 1) : T[k] > 0
                         /\ LabelIn(i + 1, j - 1)
                         /\ j + 2 <= Len(T)
                         /\ T[j + 1] = NORMAL
                         /\ T[j + 2] = LEFT
                /\ T[i] > 0 =>
                      \A d \in 1..(i - 1) :
                         (T[d] = TEXT2X /\ \A k \in (d + 1)..(i - 1) : T[k] \notin {TEXT2X, NORMAL, INIT})
                           => \A k \in d..i : T[k] # CRLF

\* C32 witness: a USB call returned True on a receipt whose order-number
\* line is followed by a line of plain text
C32_Witness ==
    /\ p_last.kind = "usb"
    /\ p_last.result = "ok"
    /\ Len(p_last.text) >= 2
    /\ p_last.text[1] = <<"n", "a">>
    /\ p_last.text[2] = <<"a">>

\* C33: when delete_order returns after a cascade that reported success,
\* every cache entry whose key contains "orders_basic", "order_items" or
\* "order_options" is gone and the other entries are as before; when it
\* returns after a cascade that reported failure, and during the cascade,
\* the cache is unchanged; a cached read after a successful delete never
\* returns a list of orders with the deleted order in it
C33_InvalidatedIffDeleted ==
    /\ [][(c_pc = "local" /\ c_pc' = "idle")
            => IF c_last.supabase_success
               THEN /\ DOMAIN qc_cache' =
                         {k \in DOMAIN qc_cache :
                             \A pattern \in {<<"orders_basic">>, <<"order_items">>,
                                             <<"order_options">>} :
                                ~IsSubstring(pattern, k)}
                    /\ DOMAIN qc_times' = DOMAIN qc_cache'
                    /\ \A k \in DOMAIN qc_cache' :
                          qc_cache'[k] = qc_cache[k] /\ qc_times'[k] = qc_times[k]
               ELSE UNCHANGED <<qc_cache, qc_times>>]_vars
    /\ [][(c_pc # "idle" /\ c_pc' # "idle") => UNCHANGED <<qc_cache, qc_times>>]_vars
    /\ []((c_pc = "idle" /\ c_last.supabase_success /\ qc_last.op = "cached"
             /\ qc_last.key[1] = "orders_basic")
            => c_last.order \notin qc_last.ret)

\* C33 witness: a delete that reported success has returned, it removed
\* cached order lists and left the cached menu items, and a later read of
\* the order list was served from the cache
C33_Witness ==
    /\ c_pc = "idle"
    /\ c_last.supabase_success
    /\ <<"menu_items", "_", "args">> \in DOMAIN qc_cache
    /\ qc_last.op = "cached"
    /\ qc_last.key[1] = "orders_basic"

\* C37: whichever print path prints an order, the receipt is the rendering
\* of the order detail with its recorded total_price
C37_SameReceiptOnEveryPath ==
    r_path # "none" => r_lines = ReceiptLines(r_order)

C39_NoConnectAfterDisconnect ==
    [][(Len(client'.conns) > Len(client.conns) /\ ~client.should_reconnect)
         => (~client.is_monitoring /\ client'.is_monitoring)]_vars

\* C40: of the heartbeat threads that sent on the connection now open and
\* are still in their loop there is at most one, and a heartbeat is sent only
\* by the thread started for the connection that self.ws names
C40_OneHeartbeatSender ==
    /\ [](Cardinality({n \in DOMAIN client.senders :
                          /\ client.senders[n].pc = "sleep"
                          /\ client.senders[n].on = client.ws
                          /\ client.is_connected}) <= 1)
    /\ [][\A n \in DOMAIN client.senders :
            (client'.senders[n].pc = "sleep" /\ client'.senders[n] # client.senders[n])
              => n = client.ws]_vars

====
